---- MODULE Spec2Model ----
(***************************************************************************)
(* A state-machine model of the Daily Planner web application (src/app.py). *)
(*                                                                         *)
(* The persisted state is the relational store (one variable per table).   *)
(* A `with get_conn() as conn:` block of the source is one database        *)
(* transaction.  Where requests are served one after another a block is    *)
(* one step of the model; a handler that opens several blocks, or whose    *)
(* block reads and then writes while other requests run, is a process with *)
(* a program counter (rq[s].pc), so that the clock and the statements of   *)
(* other requests may move between its steps.                              *)
(*                                                                         *)
(* Modelling conventions:                                                  *)
(*   - the clock `now` counts hours; a calendar date is the day number     *)
(*     now \div 24.  ISO-8601 strings of equal format order as the         *)
(*     instants they denote, so string comparison in SQL is integer        *)
(*     comparison here (well-formed dates only);                           *)
(*   - SQL NULL / Python None is 0 for ids and tokens, "" for text;        *)
(*   - the database is reliable: a commit succeeds.                        *)
(***************************************************************************)
EXTENDS Integers, Sequences, FiniteSets, TLC

VARIABLES
    now,          \* the wall clock, in hours
    seq,          \* last id handed out per table (AUTOINCREMENT / SERIAL)
    users,        \* table users
    invites,      \* table invites
    resets,       \* table password_resets
    plans,        \* table plans
    settings,     \* table settings
    habits,       \* table habits
    habit_logs,   \* table habit_logs
    checklist_items,    \* table checklist_items
    routines,           \* table routines
    routine_items,      \* table routine_items
    routine_item_logs,  \* table routine_item_logs
    spending_entries,   \* table spending_entries
    spending_budgets,   \* table spending_budgets
    daily_reflections,  \* table daily_reflections
    backend,      \* DB_BACKEND: "sqlite" or "postgres", fixed at start-up
    sessions,     \* the signed session cookie of each browser
    rq,           \* the request each browser has in flight, with its position
    resp,         \* the response the server sent last
    redeemed,     \* history: the user ids created by requests holding each token
    reset_writes  \* history: password_hash writes made by requests per reset token

\* The tables and settings of the deployment that the handlers of accounts,
\* plans and habits never touch
other == <<checklist_items, routines, routine_items, routine_item_logs,
           spending_entries, spending_budgets, daily_reflections, backend>>

vars == <<now, seq, users, invites, resets, plans, settings, habits, habit_logs,
          other, sessions, rq, resp, redeemed, reset_writes>>

db == <<users, invites, resets, plans, settings, habits, habit_logs>>

-----------------------------------------------------------------------------
(* Bounds of the model *)

MaxDay == 2        \* the planner's clock stops at the end of this day
MaxHabitDay == 3   \* the habit tracker's clock stops at the end of this day
MaxPlans == 1      \* plan ids handed out
MaxCount == 2      \* a habit's count for one day stops here
MaxLogRows == 3    \* rows the table habit_logs holds
MaxWindow == 3     \* largest max_days handed to compute_habit_streaks
MaxInvites == 1    \* invite tokens handed out
MaxHours == 1      \* hours the clock advances after an invite's lifetime
MaxResets == 1     \* password-reset tokens handed out
MaxResetHour == 3  \* the clock of the password resets stops at this hour

(* Program constants *)

RESET_CYCLE_DAYS_DEFAULT == 90
INVITE_DAYS == 7            \* create_invite: timedelta(days=7)
RESET_HOURS == 2            \* password_reset_request: timedelta(hours=2)

Sessions == {"s1", "s2", "s3"}
UserIds == 1..3

-----------------------------------------------------------------------------
(* Clock *)

\* date.today(): the calendar day of the clock
today_str == now \div 24

Days == 0..(MaxDay + 1)

\* Midnight passes (the clock stops on day last_day).
TickDay(last_day) ==
    /\ today_str < last_day
    /\ now' = now + 24
    /\ UNCHANGED <<seq, db, other, sessions, rq, resp, redeemed, reset_writes>>

\* Time passes: `hours` hours.
Tick(hours) ==
    /\ now' = now + hours
    /\ UNCHANGED <<seq, db, other, sessions, rq, resp, redeemed, reset_writes>>

-----------------------------------------------------------------------------
(* Form input normalisation *)

\* str.strip(): blank and whitespace-only text become "", other text keeps
\* its inner characters
strip(x) ==
    CASE x = " " -> ""
      [] x = " Ann " -> "Ann"
      [] x = " bob " -> "bob"
      [] OTHER -> x

\* str.strip().lower()
strip_lower(x) ==
    CASE strip(x) = "Ann" -> "ann"
      [] strip(x) = "ANN@X" -> "ann@x"
      [] OTHER -> strip(x)

-----------------------------------------------------------------------------
(* Numbers in form fields *)

\* A float: a number (whole numbers suffice here) or NaN
Num(n) == [kind |-> "num", n |-> n]

NaN == [kind |-> "nan", n |-> 0]

\* int(text): <<n>> for text that reads as the integer n, << >> for ValueError
int(text) ==
    CASE text = "3" -> <<3>>
      [] text = "30" -> <<30>>
      [] text = " 30 " -> <<30>>
      [] text = "1000" -> <<1000>>
      [] text = "-5" -> <<-5>>
      [] text = "0" -> <<0>>
      [] text = "2" -> <<2>>
      [] OTHER -> << >>

\* float(text): <<x>> for text that reads as the float x, << >> for
\* ValueError; float() reads "nan" as NaN
float(text) ==
    CASE text = "5" -> <<Num(5)>>
      [] text = "10" -> <<Num(10)>>
      [] text = "20" -> <<Num(20)>>
      [] text = "0" -> <<Num(0)>>
      [] text = "-2" -> <<Num(-2)>>
      [] text = "nan" -> <<NaN>>
      [] OTHER -> << >>

\* parse_int(value, default)
parse_int(value, default) == IF int(value) = << >> THEN default ELSE int(value)[1]

\* parse_float(value, default)
parse_float(value, default) == IF float(value) = << >> THEN default ELSE float(value)[1]

\* x <= y on floats: every comparison with NaN is false
float_le(x, y) == x.kind = "num" /\ y.kind = "num" /\ x.n <= y.n

\* x + y on floats
float_add(x, y) == IF x.kind = "nan" \/ y.kind = "nan" THEN NaN ELSE Num(x.n + y.n)

-----------------------------------------------------------------------------
(* Requests and responses *)

Idle == [op |-> "none", pc |-> "idle", uid |-> 0, token |-> 0, rid |-> 0,
         today |-> 0, cycle_start |-> 0, max_days |-> 0,
         username |-> "", email |-> "", password |-> "", user_count |-> 0,
         error |-> "", message |-> "", daily_spend_limit |-> Num(0),
         current |-> << >>, form |-> << >>]

NoResp == [s |-> "none", page |-> "none", error |-> "", message |-> "", today |-> 0,
           rows |-> {}, count |-> 0, streaks |-> << >>, max_days |-> 0,
           daily_spend_limit |-> Num(0), view |-> << >>]

IsIdle(s) == rq[s].pc = "idle"

\* No request of another browser is in flight.
OthersIdle(s) == \A o \in Sessions \ {s} : IsIdle(o)

\* load_user: g.user is the users row of the session's user_id, or None (0)
load_user(s) ==
    IF sessions[s].user_id # 0 /\ \E u \in users : u.id = sessions[s].user_id
    THEN sessions[s].user_id
    ELSE 0

Respond(s, r) == resp' = [r EXCEPT !.s = s]

\* login_required: an anonymous request is redirected to the login page
RedirectLogin(s) ==
    /\ load_user(s) = 0
    /\ Respond(s, [NoResp EXCEPT !.page = "redirect:login"])

-----------------------------------------------------------------------------
(* Settings *)

Max(a, b) == IF a >= b THEN a ELSE b
Min(a, b) == IF a <= b THEN a ELSE b

\* Mutant: the value is stored as submitted, without the clamp.
normalize_cycle_days_unclamped(value) ==
    IF value = << >> THEN RESET_CYCLE_DAYS_DEFAULT ELSE value[1]

\* normalize_cycle_days; the value is <<n>> for the integer n (or text that
\* int() reads as n) and << >> for None and text that is no integer
normalize_cycle_days(value) ==
    LET days == IF value = << >> THEN RESET_CYCLE_DAYS_DEFAULT ELSE value[1]
    IN  Max(7, Min(days, 365))

cycle_start_str(cycle_days, today) == today - (cycle_days - 1)

HasSettings(S, user_id) == \E r \in S : r.user_id = user_id

SettingsRow(S, user_id) == CHOOSE r \in S : r.user_id = user_id

\* get_settings: the table after the call (a missing row is inserted)
get_settings(S, user_id) ==
    IF HasSettings(S, user_id)
    THEN S
    ELSE S \cup {[user_id |-> user_id, daily_spend_limit |-> Num(0),
                  reset_cycle_days |-> RESET_CYCLE_DAYS_DEFAULT]}

-----------------------------------------------------------------------------
(* Plans *)

Status == {"pending", "done", "missed"}

\* Mutant: the statement forgets `status = 'pending'`.
update_missed_plans_any_status(P, user_id, today_iso) ==
    { IF p.scheduled_date < today_iso /\ p.user_id = user_id
      THEN [p EXCEPT !.status = "missed"]
      ELSE p : p \in P }

\* Mutant: an overdue plan is moved one day on instead of being marked.
update_missed_plans_moves_on(P, user_id, today_iso) ==
    { IF p.status = "pending" /\ p.scheduled_date < today_iso /\ p.user_id = user_id
      THEN [p EXCEPT !.scheduled_date = @ + 1]
      ELSE p : p \in P }

\* Mutant: the date test lets today's plans through (<= for <).
update_missed_plans_le(P, user_id, today_iso) ==
    { IF p.status = "pending" /\ p.scheduled_date <= today_iso /\ p.user_id = user_id
      THEN [p EXCEPT !.status = "missed"]
      ELSE p : p \in P }

\* Mutant: the statement forgets the owner (no user_id = ? term).
update_missed_plans_all_users(P, user_id, today_iso) ==
    { IF p.status = "pending" /\ p.scheduled_date < today_iso
      THEN [p EXCEPT !.status = "missed"]
      ELSE p : p \in P }

\* UPDATE plans SET status = 'missed'
\*   WHERE status = 'pending' AND scheduled_date < ? AND user_id = ?
update_missed_plans(P, user_id, today_iso) ==
    { IF p.status = "pending" /\ p.scheduled_date < today_iso /\ p.user_id = user_id
      THEN [p EXCEPT !.status = "missed"]
      ELSE p : p \in P }

\* Mutant: the route lacks @login_required and takes the user id from the cookie.
add_plan_unprotected(s, title, sd) ==
    /\ IsIdle(s)
    /\ IF strip(title) = ""
       THEN UNCHANGED <<plans, seq>>
       ELSE /\ seq.plans < MaxPlans
            /\ seq' = [seq EXCEPT !.plans = @ + 1]
            /\ plans' = plans \cup
                  {[id |-> seq.plans + 1, user_id |-> sessions[s].user_id,
                    scheduled_date |-> IF sd = -1 THEN today_str ELSE sd,
                    status |-> "pending"]}
    /\ Respond(s, [NoResp EXCEPT !.page = "redirect:index"])
    /\ UNCHANGED <<now, other, users, invites, resets, settings, habits, habit_logs,
                   sessions, rq, redeemed, reset_writes>>

\* POST /plan/add; sd is the submitted date, -1 when the field is blank
add_plan(s, title, sd) ==
    /\ IsIdle(s)
    /\ \/ RedirectLogin(s) /\ UNCHANGED <<plans, seq>>
       \/ /\ load_user(s) # 0
          /\ IF strip(title) = ""
             THEN UNCHANGED <<plans, seq>>
             ELSE /\ seq.plans < MaxPlans
                  /\ seq' = [seq EXCEPT !.plans = @ + 1]
                  /\ plans' = plans \cup
                        {[id |-> seq.plans + 1, user_id |-> load_user(s),
                          scheduled_date |-> IF sd = -1 THEN today_str ELSE sd,
                          status |-> "pending"]}
          /\ Respond(s, [NoResp EXCEPT !.page = "redirect:index"])
    /\ UNCHANGED <<now, other, users, invites, resets, settings, habits, habit_logs,
                   sessions, rq, redeemed, reset_writes>>

\* UPDATE plans SET status = ? WHERE id = ? AND user_id = ?
set_plan_status(P, plan_id, user_id, status) ==
    { IF p.id = plan_id /\ p.user_id = user_id
      THEN [p EXCEPT !.status = status]
      ELSE p : p \in P }

PlanFrame == UNCHANGED <<now, other, seq, users, invites, resets, settings, habits,
                         habit_logs, sessions, rq, redeemed, reset_writes>>

\* POST /plan/complete/<plan_id>
complete_plan(s, plan_id) ==
    /\ IsIdle(s)
    /\ \/ RedirectLogin(s) /\ UNCHANGED plans
       \/ /\ load_user(s) # 0
          /\ plans' = set_plan_status(plans, plan_id, load_user(s), "done")
          /\ Respond(s, [NoResp EXCEPT !.page = "redirect:index"])
    /\ PlanFrame

\* POST /plan/reopen/<plan_id>
reopen_plan(s, plan_id) ==
    /\ IsIdle(s)
    /\ \/ RedirectLogin(s) /\ UNCHANGED plans
       \/ /\ load_user(s) # 0
          /\ plans' = set_plan_status(plans, plan_id, load_user(s), "pending")
          /\ Respond(s, [NoResp EXCEPT !.page = "redirect:index"])
    /\ PlanFrame

\* POST /plan/delete/<plan_id>
delete_plan(s, plan_id) ==
    /\ IsIdle(s)
    /\ \/ RedirectLogin(s) /\ UNCHANGED plans
       \/ /\ load_user(s) # 0
          /\ plans' = { p \in plans : ~(p.id = plan_id /\ p.user_id = load_user(s)) }
          /\ Respond(s, [NoResp EXCEPT !.page = "redirect:index"])
    /\ PlanFrame


-----------------------------------------------------------------------------
(* Habits *)

HabitFrame == UNCHANGED <<now, other, seq, users, invites, resets, plans, settings, habits,
                          sessions, rq, redeemed, reset_writes>>

\* SELECT id FROM habits WHERE id = ? AND user_id = ?
owns_habit(habit_id, user_id) ==
    \E h \in habits : h.id = habit_id /\ h.user_id = user_id

\* the habit_logs rows WHERE habit_id = ? AND log_date = ? (at most one:
\* UNIQUE (habit_id, log_date))
log_rows(rows, habit_id, log_date) ==
    { r \in rows : r.habit_id = habit_id /\ r.log_date = log_date }

\* POST /habits/log/<habit_id>
log_habit(s, habit_id) ==
    /\ IsIdle(s)
    /\ \/ RedirectLogin(s) /\ UNCHANGED habit_logs
       \/ /\ load_user(s) # 0
          /\ LET user_id == load_user(s)
                 log_date == today_str
                 current == { r \in log_rows(habit_logs, habit_id, log_date) :
                                r.user_id = user_id }
             IN  IF ~owns_habit(habit_id, user_id)
                 THEN UNCHANGED habit_logs
                 ELSE IF current = {}
                 THEN /\ Cardinality(habit_logs) < MaxLogRows
                      /\ habit_logs' = habit_logs \cup
                            {[habit_id |-> habit_id, user_id |-> user_id,
                              log_date |-> log_date, count |-> 1]}
                 ELSE /\ \A r \in current : r.count < MaxCount
                      /\ habit_logs' =
                            { IF r \in current THEN [r EXCEPT !.count = @ + 1] ELSE r :
                              r \in habit_logs }
          /\ Respond(s, [NoResp EXCEPT !.page = "redirect:index"])
    /\ HabitFrame

\* POST /habits/reset/<habit_id>:
\* INSERT ... VALUES (?, ?, ?, 0) ON CONFLICT(habit_id, log_date) DO UPDATE SET count = 0
reset_habit(s, habit_id) ==
    /\ IsIdle(s)
    /\ \/ RedirectLogin(s) /\ UNCHANGED habit_logs
       \/ /\ load_user(s) # 0
          /\ LET user_id == load_user(s)
                 log_date == today_str
                 conflict == log_rows(habit_logs, habit_id, log_date)
             IN  IF ~owns_habit(habit_id, user_id)
                 THEN UNCHANGED habit_logs
                 ELSE IF conflict = {}
                 THEN /\ Cardinality(habit_logs) < MaxLogRows
                      /\ habit_logs' = habit_logs \cup
                            {[habit_id |-> habit_id, user_id |-> user_id,
                              log_date |-> log_date, count |-> 0]}
                 ELSE habit_logs' =
                            { IF r \in conflict THEN [r EXCEPT !.count = 0] ELSE r :
                              r \in habit_logs }
          /\ Respond(s, [NoResp EXCEPT !.page = "redirect:index"])
    /\ HabitFrame

\* compute_habit_streaks, lines 701-705 and 714:
\* log_map.get(habit_id, {}).get(check_date, 0)
log_count(rows, habit_id, check_date) ==
    IF log_rows(rows, habit_id, check_date) = {}
    THEN 0
    ELSE (CHOOSE r \in log_rows(rows, habit_id, check_date) : TRUE).count

\* compute_habit_streaks, lines 711-718: the scan from `offset` on
RECURSIVE streak_from(_, _, _, _, _, _)
streak_from(rows, habit_id, target, today, offset, max_days) ==
    IF offset >= max_days
    THEN 0
    ELSE IF log_count(rows, habit_id, today - offset) >= target /\ target > 0
    THEN 1 + streak_from(rows, habit_id, target, today, offset + 1, max_days)
    ELSE 0

\* Mutant: a row of any habit counts for the day (log_map not keyed by habit).
RECURSIVE streak_any_habit(_, _, _, _, _)
streak_any_habit(rows, target, today, offset, max_days) ==
    IF offset >= max_days
    THEN 0
    ELSE IF (\E r \in rows : r.log_date = today - offset /\ r.count >= target) /\ target > 0
    THEN 1 + streak_any_habit(rows, target, today, offset + 1, max_days)
    ELSE 0

compute_habit_streaks_any_habit(hs, habit_log_rows, max_days, today) ==
    [ habit_id \in { h.id : h \in hs } |->
        LET habit == CHOOSE h \in hs : h.id = habit_id
        IN  streak_any_habit(habit_log_rows, habit.target_count, today, 0, max_days) ]

\* Mutant: a day not yet met today does not end the streak (the scan starts
\* at yesterday when today is short).
compute_habit_streaks_grace(hs, habit_log_rows, max_days, today) ==
    [ habit_id \in { h.id : h \in hs } |->
        LET habit == CHOOSE h \in hs : h.id = habit_id
            first == IF log_count(habit_log_rows, habit_id, today) >= habit.target_count
                     THEN 0 ELSE 1
        IN  streak_from(habit_log_rows, habit_id, habit.target_count, today, first, max_days) ]

\* compute_habit_streaks(habits, habit_log_rows, max_days), with the
\* date.today() it reads on line 700
compute_habit_streaks(hs, habit_log_rows, max_days, today) ==
    [ habit_id \in { h.id : h \in hs } |->
        LET habit == CHOOSE h \in hs : h.id = habit_id
        IN  streak_from(habit_log_rows, habit_id, habit.target_count, today, 0, max_days) ]

\* A call of compute_habit_streaks on the tables as they are, with a window
\* of max_days.
habit_streaks_call(max_days) ==
    /\ resp' = [NoResp EXCEPT
                   !.page = "habit_streaks", !.today = today_str, !.max_days = max_days,
                   !.streaks = compute_habit_streaks(habits, habit_logs, max_days, today_str)]
    /\ UNCHANGED <<now, other, seq, db, sessions, rq, redeemed, reset_writes>>

-----------------------------------------------------------------------------
(* Storage of numbers *)

\* A REAL NOT NULL column: sqlite binds NaN as NULL and refuses the row;
\* postgres stores NaN
real_not_null_fails(x) == backend = "sqlite" /\ x.kind = "nan"

ServerError(s) == Respond(s, [NoResp EXCEPT !.page = "error:500"])

-----------------------------------------------------------------------------
(* Checklist, routines, habits, spending, budgets, settings, reflections *)

CoreFrame ==
    UNCHANGED <<now, backend, users, invites, resets, plans, sessions, rq, redeemed,
                reset_writes>>

\* POST /checklist/add; sd is the submitted date, -1 when the field is blank
add_checklist_item(s, label, sd) ==
    /\ IsIdle(s)
    /\ \/ RedirectLogin(s) /\ UNCHANGED <<checklist_items, seq>>
       \/ /\ load_user(s) # 0
          /\ IF strip(label) = ""
             THEN UNCHANGED <<checklist_items, seq>>
             ELSE /\ seq' = [seq EXCEPT !.checklist_items = @ + 1]
                  /\ checklist_items' = checklist_items \cup
                        {[id |-> seq.checklist_items + 1, user_id |-> load_user(s),
                          label |-> strip(label),
                          scheduled_date |-> IF sd = -1 THEN today_str ELSE sd,
                          done |-> 0]}
          /\ Respond(s, [NoResp EXCEPT !.page = "redirect:index"])
    /\ UNCHANGED <<settings, habits, habit_logs, routines, routine_items, routine_item_logs,
                   spending_entries, spending_budgets, daily_reflections>>
    /\ CoreFrame

\* POST /checklist/toggle/<item_id>
toggle_checklist_item(s, item_id) ==
    /\ IsIdle(s)
    /\ \/ RedirectLogin(s) /\ UNCHANGED checklist_items
       \/ /\ load_user(s) # 0
          /\ LET current == { c \in checklist_items :
                                c.id = item_id /\ c.user_id = load_user(s) }
             IN  checklist_items' =
                    { IF c \in current THEN [c EXCEPT !.done = IF c.done # 0 THEN 0 ELSE 1]
                      ELSE c : c \in checklist_items }
          /\ Respond(s, [NoResp EXCEPT !.page = "redirect:index"])
    /\ UNCHANGED <<seq, settings, habits, habit_logs, routines, routine_items,
                   routine_item_logs, spending_entries, spending_budgets, daily_reflections>>
    /\ CoreFrame

\* POST /checklist/delete/<item_id>
delete_checklist_item(s, item_id) ==
    /\ IsIdle(s)
    /\ \/ RedirectLogin(s) /\ UNCHANGED checklist_items
       \/ /\ load_user(s) # 0
          /\ checklist_items' =
                { c \in checklist_items : ~(c.id = item_id /\ c.user_id = load_user(s)) }
          /\ Respond(s, [NoResp EXCEPT !.page = "redirect:index"])
    /\ UNCHANGED <<seq, settings, habits, habit_logs, routines, routine_items,
                   routine_item_logs, spending_entries, spending_budgets, daily_reflections>>
    /\ CoreFrame

\* POST /routines/add (time_of_day left at its default)
add_routine(s, name) ==
    /\ IsIdle(s)
    /\ \/ RedirectLogin(s) /\ UNCHANGED <<routines, seq>>
       \/ /\ load_user(s) # 0
          /\ IF strip(name) = ""
             THEN UNCHANGED <<routines, seq>>
             ELSE /\ seq' = [seq EXCEPT !.routines = @ + 1]
                  /\ routines' = routines \cup
                        {[id |-> seq.routines + 1, user_id |-> load_user(s),
                          name |-> strip(name), time_of_day |-> "any", active |-> 1]}
          /\ Respond(s, [NoResp EXCEPT !.page = "redirect:index"])
    /\ UNCHANGED <<settings, habits, habit_logs, checklist_items, routine_items, routine_item_logs,
                   spending_entries, spending_budgets, daily_reflections>>
    /\ CoreFrame

\* POST /routine-items/add
add_routine_item(s, routine_id, label, sort_order) ==
    /\ IsIdle(s)
    /\ \/ RedirectLogin(s) /\ UNCHANGED <<routine_items, seq>>
       \/ /\ load_user(s) # 0
          /\ IF strip(label) = "" \/
                ~\E r \in routines : r.id = routine_id /\ r.user_id = load_user(s)
             THEN UNCHANGED <<routine_items, seq>>
             ELSE /\ seq' = [seq EXCEPT !.routine_items = @ + 1]
                  /\ routine_items' = routine_items \cup
                        {[id |-> seq.routine_items + 1, routine_id |-> routine_id,
                          user_id |-> load_user(s), label |-> strip(label),
                          sort_order |-> parse_int(sort_order, 0)]}
          /\ Respond(s, [NoResp EXCEPT !.page = "redirect:index"])
    /\ UNCHANGED <<settings, habits, habit_logs, checklist_items, routines, routine_item_logs,
                   spending_entries, spending_budgets, daily_reflections>>
    /\ CoreFrame

\* POST /routine-items/toggle/<item_id>
toggle_routine_item(s, item_id) ==
    /\ IsIdle(s)
    /\ \/ RedirectLogin(s) /\ UNCHANGED routine_item_logs
       \/ /\ load_user(s) # 0
          /\ LET user_id == load_user(s)
                 log_date == today_str
                 current == { l \in routine_item_logs :
                                /\ l.routine_item_id = item_id
                                /\ l.log_date = log_date
                                /\ l.user_id = user_id }
             IN  IF ~\E i \in routine_items : i.id = item_id /\ i.user_id = user_id
                 THEN UNCHANGED routine_item_logs
                 ELSE IF current = {}
                 THEN routine_item_logs' = routine_item_logs \cup
                        {[routine_item_id |-> item_id, user_id |-> user_id,
                          log_date |-> log_date, done |-> 1]}
                 ELSE routine_item_logs' =
                        { IF l \in current
                          THEN [l EXCEPT !.done = IF l.done # 0 THEN 0 ELSE 1]
                          ELSE l : l \in routine_item_logs }
          /\ Respond(s, [NoResp EXCEPT !.page = "redirect:index"])
    /\ UNCHANGED <<seq, settings, habits, habit_logs, checklist_items, routines,
                   routine_items, spending_entries, spending_budgets, daily_reflections>>
    /\ CoreFrame

\* POST /habits/add
add_habit(s, name, target_count) ==
    /\ IsIdle(s)
    /\ \/ RedirectLogin(s) /\ UNCHANGED <<habits, seq>>
       \/ /\ load_user(s) # 0
          /\ IF strip(name) = ""
             THEN UNCHANGED <<habits, seq>>
             ELSE /\ seq' = [seq EXCEPT !.habits = @ + 1]
                  /\ habits' = habits \cup
                        {[id |-> seq.habits + 1, user_id |-> load_user(s),
                          target_count |-> parse_int(target_count, 1), active |-> 1]}
          /\ Respond(s, [NoResp EXCEPT !.page = "redirect:index"])
    /\ UNCHANGED <<settings, habit_logs, checklist_items, routines, routine_items, routine_item_logs,
                   spending_entries, spending_budgets, daily_reflections>>
    /\ CoreFrame

\* POST /spending/add; sd is the submitted date, -1 when the field is blank
add_spending(s, amount_text, category, sd) ==
    /\ IsIdle(s)
    /\ \/ RedirectLogin(s) /\ UNCHANGED <<spending_entries, seq>>
       \/ /\ load_user(s) # 0
          /\ LET amount == float(strip(amount_text))
             IN  IF amount = << >>
                 THEN /\ UNCHANGED <<spending_entries, seq>>
                      /\ Respond(s, [NoResp EXCEPT !.page = "redirect:index"])
                 ELSE IF float_le(amount[1], Num(0))
                 THEN /\ UNCHANGED <<spending_entries, seq>>
                      /\ Respond(s, [NoResp EXCEPT !.page = "redirect:index"])
                 ELSE IF real_not_null_fails(amount[1])
                 THEN UNCHANGED <<spending_entries, seq>> /\ ServerError(s)
                 ELSE /\ seq' = [seq EXCEPT !.spending_entries = @ + 1]
                      /\ spending_entries' = spending_entries \cup
                            {[id |-> seq.spending_entries + 1, user_id |-> load_user(s),
                              amount |-> amount[1],
                              category |-> IF strip(category) = "" THEN "Other"
                                           ELSE strip(category),
                              spend_date |-> IF sd = -1 THEN today_str ELSE sd]}
                      /\ Respond(s, [NoResp EXCEPT !.page = "redirect:index"])
    /\ UNCHANGED <<settings, habits, habit_logs, checklist_items, routines, routine_items,
                   routine_item_logs, spending_budgets, daily_reflections>>
    /\ CoreFrame

\* Mutant: the DELETE forgets the owner (no user_id = ? term).
delete_spending_any_user(s, entry_id) ==
    /\ IsIdle(s)
    /\ \/ RedirectLogin(s) /\ UNCHANGED spending_entries
       \/ /\ load_user(s) # 0
          /\ spending_entries' = { e \in spending_entries : e.id # entry_id }
          /\ Respond(s, [NoResp EXCEPT !.page = "redirect:index"])
    /\ UNCHANGED <<seq, settings, habits, habit_logs, checklist_items, routines,
                   routine_items, routine_item_logs, spending_budgets, daily_reflections>>
    /\ CoreFrame

\* POST /spending/delete/<entry_id>
delete_spending(s, entry_id) ==
    /\ IsIdle(s)
    /\ \/ RedirectLogin(s) /\ UNCHANGED spending_entries
       \/ /\ load_user(s) # 0
          /\ spending_entries' =
                { e \in spending_entries : ~(e.id = entry_id /\ e.user_id = load_user(s)) }
          /\ Respond(s, [NoResp EXCEPT !.page = "redirect:index"])
    /\ UNCHANGED <<seq, settings, habits, habit_logs, checklist_items, routines,
                   routine_items, routine_item_logs, spending_budgets, daily_reflections>>
    /\ CoreFrame

\* INSERT INTO settings (user_id, daily_spend_limit) VALUES (?, ?)
\*   ON CONFLICT(user_id) DO UPDATE SET daily_spend_limit = excluded.daily_spend_limit
\* (reset_cycle_days of a new row is the column's DEFAULT 90)
upsert_spend_limit(S, user_id, daily_limit) ==
    IF HasSettings(S, user_id)
    THEN { IF r.user_id = user_id THEN [r EXCEPT !.daily_spend_limit = daily_limit]
           ELSE r : r \in S }
    ELSE S \cup {[user_id |-> user_id, daily_spend_limit |-> daily_limit,
                  reset_cycle_days |-> RESET_CYCLE_DAYS_DEFAULT]}

\* POST /settings/spend-limit
update_spend_limit(s, daily_spend_limit) ==
    /\ IsIdle(s)
    /\ \/ RedirectLogin(s) /\ UNCHANGED settings
       \/ /\ load_user(s) # 0
          /\ LET daily_limit == parse_float(daily_spend_limit, Num(0))
             IN  IF real_not_null_fails(daily_limit)
                 THEN UNCHANGED settings /\ ServerError(s)
                 ELSE /\ settings' = upsert_spend_limit(settings, load_user(s), daily_limit)
                      /\ Respond(s, [NoResp EXCEPT !.page = "redirect:index"])
    /\ UNCHANGED <<seq, habits, habit_logs, checklist_items, routines, routine_items,
                   routine_item_logs, spending_entries, spending_budgets, daily_reflections>>
    /\ CoreFrame

\* INSERT INTO settings (user_id, daily_spend_limit, reset_cycle_days) VALUES (?, 0, ?)
\*   ON CONFLICT(user_id) DO UPDATE SET reset_cycle_days = excluded.reset_cycle_days
upsert_reset_cycle(S, user_id, cycle_days) ==
    IF HasSettings(S, user_id)
    THEN { IF r.user_id = user_id THEN [r EXCEPT !.reset_cycle_days = cycle_days]
           ELSE r : r \in S }
    ELSE S \cup {[user_id |-> user_id, daily_spend_limit |-> Num(0),
                  reset_cycle_days |-> cycle_days]}

\* POST /settings/reset-cycle
update_reset_cycle(s, reset_cycle_days) ==
    /\ IsIdle(s)
    /\ \/ RedirectLogin(s) /\ UNCHANGED settings
       \/ /\ load_user(s) # 0
          /\ settings' = upsert_reset_cycle(settings, load_user(s),
                                            normalize_cycle_days(int(reset_cycle_days)))
          /\ Respond(s, [NoResp EXCEPT !.page = "redirect:index"])
    /\ UNCHANGED <<seq, habits, habit_logs, checklist_items, routines, routine_items,
                   routine_item_logs, spending_entries, spending_budgets, daily_reflections>>
    /\ CoreFrame

\* INSERT INTO daily_reflections ... ON CONFLICT(user_id, log_date) DO UPDATE SET
\*   mood, wins, blockers, gratitude
upsert_reflection(R, user_id, log_date, form) ==
    IF \E r \in R : r.user_id = user_id /\ r.log_date = log_date
    THEN { IF r.user_id = user_id /\ r.log_date = log_date
           THEN [r EXCEPT !.mood = strip(form.mood), !.wins = strip(form.wins),
                          !.blockers = strip(form.blockers),
                          !.gratitude = strip(form.gratitude)]
           ELSE r : r \in R }
    ELSE R \cup {[user_id |-> user_id, log_date |-> log_date,
                  mood |-> strip(form.mood), wins |-> strip(form.wins),
                  blockers |-> strip(form.blockers),
                  gratitude |-> strip(form.gratitude)]}

\* POST /reflection/save; ld is the submitted date, -1 when the field is blank
save_reflection(s, ld, form) ==
    /\ IsIdle(s)
    /\ \/ RedirectLogin(s) /\ UNCHANGED daily_reflections
       \/ /\ load_user(s) # 0
          /\ daily_reflections' =
                upsert_reflection(daily_reflections, load_user(s),
                                  IF ld = -1 THEN today_str ELSE ld, form)
          /\ Respond(s, [NoResp EXCEPT !.page = "redirect:index"])
    /\ UNCHANGED <<seq, settings, habits, habit_logs, checklist_items, routines,
                   routine_items, routine_item_logs, spending_entries, spending_budgets>>
    /\ CoreFrame

\* Mutant: the conflict target is the category alone.
upsert_budget_by_category(B, id, user_id, category, daily_limit, weekly_limit) ==
    IF \E b \in B : b.category = category
    THEN { IF b.category = category
           THEN [b EXCEPT !.daily_limit = daily_limit, !.weekly_limit = weekly_limit]
           ELSE b : b \in B }
    ELSE B \cup {[id |-> id, user_id |-> user_id, category |-> category,
                  daily_limit |-> daily_limit, weekly_limit |-> weekly_limit]}

\* INSERT INTO spending_budgets ... ON CONFLICT(user_id, category) DO UPDATE SET
\*   daily_limit, weekly_limit
upsert_budget(B, id, user_id, category, daily_limit, weekly_limit) ==
    IF \E b \in B : b.user_id = user_id /\ b.category = category
    THEN { IF b.user_id = user_id /\ b.category = category
           THEN [b EXCEPT !.daily_limit = daily_limit, !.weekly_limit = weekly_limit]
           ELSE b : b \in B }
    ELSE B \cup {[id |-> id, user_id |-> user_id, category |-> category,
                  daily_limit |-> daily_limit, weekly_limit |-> weekly_limit]}

\* The id counter of spending_budgets after the upsert: SERIAL is consumed by
\* every INSERT that gets as far as the conflict, AUTOINCREMENT only by a
\* stored row
budgets_seq_after(B, user_id, category) ==
    IF backend = "sqlite" /\ \E b \in B : b.user_id = user_id /\ b.category = category
    THEN seq.spending_budgets
    ELSE seq.spending_budgets + 1

\* POST /budgets/add
add_budget(s, category, daily_limit_text, weekly_limit_text) ==
    /\ IsIdle(s)
    /\ \/ RedirectLogin(s) /\ UNCHANGED <<spending_budgets, seq>>
       \/ /\ load_user(s) # 0
          /\ LET daily_limit == parse_float(daily_limit_text, Num(0))
                 weekly_limit == parse_float(weekly_limit_text, Num(0))
             IN  IF strip(category) = ""
                 THEN /\ UNCHANGED <<spending_budgets, seq>>
                      /\ Respond(s, [NoResp EXCEPT !.page = "redirect:index"])
                 ELSE IF real_not_null_fails(daily_limit) \/ real_not_null_fails(weekly_limit)
                 THEN UNCHANGED <<spending_budgets, seq>> /\ ServerError(s)
                 ELSE /\ spending_budgets' =
                            upsert_budget(spending_budgets, seq.spending_budgets + 1,
                                          load_user(s), strip(category),
                                          daily_limit, weekly_limit)
                      /\ seq' = [seq EXCEPT !.spending_budgets =
                                    budgets_seq_after(spending_budgets, load_user(s),
                                                      strip(category))]
                      /\ Respond(s, [NoResp EXCEPT !.page = "redirect:index"])
    /\ UNCHANGED <<settings, habits, habit_logs, checklist_items, routines, routine_items,
                   routine_item_logs, spending_entries, daily_reflections>>
    /\ CoreFrame

\* POST /budgets/delete/<budget_id>
delete_budget(s, budget_id) ==
    /\ IsIdle(s)
    /\ \/ RedirectLogin(s) /\ UNCHANGED spending_budgets
       \/ /\ load_user(s) # 0
          /\ spending_budgets' =
                { b \in spending_budgets : ~(b.id = budget_id /\ b.user_id = load_user(s)) }
          /\ Respond(s, [NoResp EXCEPT !.page = "redirect:index"])
    /\ UNCHANGED <<seq, settings, habits, habit_logs, checklist_items, routines,
                   routine_items, routine_item_logs, spending_entries, daily_reflections>>
    /\ CoreFrame

-----------------------------------------------------------------------------
(* Habit logging when requests overlap *)

\* log_habit reads the day's row and then writes: the SELECTs and the INSERT
\* or UPDATE are separate statements, and another request's statements may
\* run between them.  A request that has read and not yet written is at
\* pc "write", with the row it read (<<count>>, or << >> for None) in `current`.

\* The requests that have read the row of (habit_id, log_date) and have not
\* yet written
log_habit_pending(habit_id, log_date) ==
    { o \in Sessions : /\ rq[o].op = "log_habit" /\ rq[o].pc = "write"
                       /\ rq[o].rid = habit_id /\ rq[o].today = log_date }

\* POST /habits/log/<habit_id>, up to and including
\* SELECT count FROM habit_logs WHERE habit_id = ? AND log_date = ? AND user_id = ?
log_habit_select(s, habit_id) ==
    /\ IsIdle(s)
    /\ \/ RedirectLogin(s) /\ UNCHANGED rq
       \/ /\ load_user(s) # 0
          /\ LET user_id == load_user(s)
                 log_date == today_str
                 current == { r \in log_rows(habit_logs, habit_id, log_date) :
                                r.user_id = user_id }
             IN  IF ~owns_habit(habit_id, user_id)
                 THEN /\ Respond(s, [NoResp EXCEPT !.page = "redirect:index"])
                      /\ UNCHANGED rq
                 ELSE /\ Cardinality(habit_logs) < MaxLogRows
                      /\ log_count(habit_logs, habit_id, log_date)
                           + Cardinality(log_habit_pending(habit_id, log_date)) < MaxCount
                      /\ rq' = [rq EXCEPT ![s] =
                                  [Idle EXCEPT !.op = "log_habit", !.pc = "write",
                                               !.uid = user_id, !.rid = habit_id,
                                               !.today = log_date,
                                               !.current =
                                                  IF current = {} THEN << >>
                                                  ELSE <<log_count(habit_logs, habit_id,
                                                                   log_date)>>]]
                      /\ UNCHANGED resp
    /\ UNCHANGED <<now, other, seq, users, invites, resets, plans, settings, habits,
                   habit_logs, sessions, redeemed, reset_writes>>

\* The INSERT (the row read was None) or the UPDATE of log_habit, the commit
\* and the redirect.  The INSERT of a row that another request has stored in
\* the meantime breaks UNIQUE (habit_id, log_date): the IntegrityError is not
\* caught.
log_habit_write(s) ==
    /\ rq[s].op = "log_habit" /\ rq[s].pc = "write"
    /\ LET habit_id == rq[s].rid
           user_id == rq[s].uid
           log_date == rq[s].today
       IN  IF rq[s].current = << >>
           THEN IF log_rows(habit_logs, habit_id, log_date) # {}
                THEN UNCHANGED habit_logs /\ ServerError(s)
                ELSE /\ habit_logs' = habit_logs \cup
                           {[habit_id |-> habit_id, user_id |-> user_id,
                             log_date |-> log_date, count |-> 1]}
                     /\ Respond(s, [NoResp EXCEPT !.page = "redirect:index"])
           ELSE /\ habit_logs' =
                      { IF /\ r.habit_id = habit_id /\ r.log_date = log_date
                           /\ r.user_id = user_id
                        THEN [r EXCEPT !.count = @ + 1] ELSE r : r \in habit_logs }
                /\ Respond(s, [NoResp EXCEPT !.page = "redirect:index"])
    /\ rq' = [rq EXCEPT ![s] = Idle]
    /\ UNCHANGED <<now, other, seq, users, invites, resets, plans, settings, habits,
                   sessions, redeemed, reset_writes>>

-----------------------------------------------------------------------------
(* View models *)

\* The tables that hold rows owned by a user
Tables ==
    [plans |-> plans, settings |-> settings, habits |-> habits, habit_logs |-> habit_logs,
     checklist_items |-> checklist_items, routines |-> routines,
     routine_items |-> routine_items, routine_item_logs |-> routine_item_logs,
     spending_entries |-> spending_entries, spending_budgets |-> spending_budgets,
     daily_reflections |-> daily_reflections]

\* x BETWEEN lo AND hi
between(x, lo, hi) == lo <= x /\ x <= hi

\* SUM(amount) / sum(entry["amount"] for entry in ...)
RECURSIVE sum_amount(_)
sum_amount(E) ==
    IF E = {}
    THEN Num(0)
    ELSE LET e == CHOOSE x \in E : TRUE
         IN  float_add(e.amount, sum_amount(E \ {e}))

\* SUM(hl.count)
RECURSIVE sum_count(_)
sum_count(L) ==
    IF L = {}
    THEN 0
    ELSE LET l == CHOOSE x \in L : TRUE
         IN  l.count + sum_count(L \ {l})

\* SUM(ril.done)
RECURSIVE sum_done(_)
sum_done(L) ==
    IF L = {}
    THEN 0
    ELSE LET l == CHOOSE x \in L : TRUE
         IN  l.done + sum_done(L \ {l})

\* SELECT category, SUM(amount) as total FROM spending_entries
\*   WHERE spend_date BETWEEN ? AND ? AND user_id = ? GROUP BY category
spending_by_category(E, lo, hi, user_id) ==
    LET rows == { e \in E : between(e.spend_date, lo, hi) /\ e.user_id = user_id }
    IN  { <<c, sum_amount({ e \in rows : e.category = c })>> :
          c \in { e.category : e \in rows } }

\* SELECT spend_date, SUM(amount) as total FROM spending_entries
\*   WHERE spend_date BETWEEN ? AND ? AND user_id = ? GROUP BY spend_date
spending_by_day(E, lo, hi, user_id) ==
    LET rows == { e \in E : between(e.spend_date, lo, hi) /\ e.user_id = user_id }
    IN  { <<d, sum_amount({ e \in rows : e.spend_date = d })>> :
          d \in { e.spend_date : e \in rows } }

\* index, lines 925-926: habit_log_map.get(habit["id"], 0) >= habit["target_count"],
\* with the map as the set of its <<habit_id, count>> items
habit_is_hit(habit, habit_log_map) ==
    LET counts == { kv[2] : kv \in { x \in habit_log_map : x[1] = habit.id } }
    IN  IF counts = {} THEN 0 >= habit.target_count
        ELSE \E count \in counts : count >= habit.target_count

\* index, lines 924-927: habits_hit
habits_hit(hs, habit_log_map) ==
    Cardinality({ habit \in hs : habit_is_hit(habit, habit_log_map) })

\* index, lines 780-933: the queries of the read transaction and what the
\* handler derives from them for the template; T holds the tables
index_view(T, user_id, today_iso, cycle_start, week_start, reset_cycle_days, today) ==
    LET checklist == { c \in T.checklist_items :
                         between(c.scheduled_date, cycle_start, today_iso)
                         /\ c.user_id = user_id }
        habits_rows == { h \in T.habits : h.active = 1 /\ h.user_id = user_id }
        habit_logs_rows == { l \in T.habit_logs :
                               l.log_date = today_iso /\ l.user_id = user_id }
        habit_logs_all == { l \in T.habit_logs :
                              between(l.log_date, cycle_start, today_iso)
                              /\ l.user_id = user_id }
        routines_rows == { r \in T.routines : r.active = 1 /\ r.user_id = user_id }
        routine_items_rows ==
            { i \in T.routine_items :
                /\ i.routine_id \in { r.id : r \in routines_rows }
                /\ i.user_id = user_id }
        routine_logs == { l \in T.routine_item_logs :
                            l.log_date = today_iso /\ l.user_id = user_id }
        entries == { e \in T.spending_entries :
                       between(e.spend_date, cycle_start, today_iso)
                       /\ e.user_id = user_id }
    IN  [checklist |-> checklist,
         habits |-> habits_rows,
         habit_log_map |-> { <<l.habit_id, l.count>> : l \in habit_logs_rows },
         habits_hit |->
             habits_hit(habits_rows, { <<l.habit_id, l.count>> : l \in habit_logs_rows }),
         habit_streaks |->
             compute_habit_streaks(habits_rows, habit_logs_all, reset_cycle_days, today),
         routines |->
             { [id |-> r.id, name |-> r.name, time_of_day |-> r.time_of_day,
                items |-> { [id |-> i.id, label |-> i.label,
                             done |-> \E l \in routine_logs :
                                         l.routine_item_id = i.id /\ l.done # 0] :
                            i \in { x \in routine_items_rows : x.routine_id = r.id } }] :
               r \in routines_rows },
         spending_entries |-> entries,
         spend_total |-> sum_amount(entries),
         spend_total_today |-> sum_amount({ e \in entries : e.spend_date = today_iso }),
         spending_budgets |-> { b \in T.spending_budgets : b.user_id = user_id },
         spend_category_map |->
             spending_by_category(T.spending_entries, today_iso, today_iso, user_id),
         spend_week_category_map |->
             spending_by_category(T.spending_entries, week_start, today_iso, user_id),
         reflection |-> { r \in T.daily_reflections :
                            r.log_date = today_iso /\ r.user_id = user_id },
         reflections |-> { r \in T.daily_reflections :
                             between(r.log_date, cycle_start, today_iso)
                             /\ r.user_id = user_id }]

\* get_overview_stats
get_overview_stats(T, user_id) ==
    [plans |-> Cardinality({ r \in T.plans : r.user_id = user_id }),
     checklist |-> Cardinality({ r \in T.checklist_items : r.user_id = user_id }),
     habits |-> Cardinality({ r \in T.habits : r.user_id = user_id }),
     routines |-> Cardinality({ r \in T.routines : r.user_id = user_id }),
     spending_entries |-> Cardinality({ r \in T.spending_entries : r.user_id = user_id })]

\* weekly_review, lines 1006-1017: SUM(hl.count) per active habit of the
\* user over its logs of the week (<< >> for NULL: no log joins)
habit_counts(T, user_id, start_iso, end_iso) ==
    { LET joined == { hl \in T.habit_logs :
                        /\ hl.habit_id = h.id
                        /\ between(hl.log_date, start_iso, end_iso)
                        /\ hl.user_id = user_id }
      IN  <<h.id, IF joined = {} THEN << >> ELSE <<sum_count(joined)>> >> :
      h \in { x \in T.habits : x.active = 1 /\ x.user_id = user_id } }

\* weekly_review, lines 1018-1031: SUM(ril.done) per active routine of the
\* user; routine_items join on routine_id alone, the logs on item, week and
\* user
routine_completions(T, user_id, start_iso, end_iso) ==
    { LET joined == { ril \in T.routine_item_logs :
                        /\ \E ri \in T.routine_items :
                              ri.routine_id = r.id /\ ril.routine_item_id = ri.id
                        /\ between(ril.log_date, start_iso, end_iso)
                        /\ ril.user_id = user_id }
      IN  <<r.id, IF joined = {} THEN << >> ELSE <<sum_done(joined)>> >> :
      r \in { x \in T.routines : x.active = 1 /\ x.user_id = user_id } }

\* weekly_review, lines 986-1056: the queries after the plan counts
review_view(T, user_id, start_iso, end_iso) ==
    [spending_by_day |-> spending_by_day(T.spending_entries, start_iso, end_iso, user_id),
     spending_by_category |->
         spending_by_category(T.spending_entries, start_iso, end_iso, user_id),
     habit_counts |-> habit_counts(T, user_id, start_iso, end_iso),
     routine_completions |-> routine_completions(T, user_id, start_iso, end_iso)]

-----------------------------------------------------------------------------
(* Page loads: GET /, GET /about, GET /review *)

PageFrame == UNCHANGED <<now, other, seq, users, invites, resets, habits, habit_logs,
                         sessions, redeemed, reset_writes>>

\* The first transaction of a page load: load_user, login_required, then
\* update_missed_plans(user_id) on the date the clock shows now.
page_rollover(s, op, next) ==
    /\ IsIdle(s)
    /\ \/ RedirectLogin(s) /\ UNCHANGED <<plans, rq>>
       \/ /\ load_user(s) # 0
          /\ plans' = update_missed_plans(plans, load_user(s), today_str)
          /\ rq' = [rq EXCEPT ![s] = [Idle EXCEPT !.op = op, !.pc = next,
                                                  !.uid = load_user(s)]]
          /\ UNCHANGED resp
    /\ UNCHANGED settings
    /\ PageFrame

index_rollover(s) == page_rollover(s, "index", "settings")

about_rollover(s) == page_rollover(s, "about", "read")

review_rollover(s) == page_rollover(s, "review", "read")

\* index, lines 774-778: today_iso, get_settings (its own transaction),
\* reset_cycle_days and cycle_start
index_settings(s) ==
    /\ rq[s].op = "index" /\ rq[s].pc = "settings"
    /\ settings' = get_settings(settings, rq[s].uid)
    /\ LET row == SettingsRow(settings', rq[s].uid)
           reset_cycle_days == normalize_cycle_days(<<row.reset_cycle_days>>)
       IN  rq' = [rq EXCEPT ![s].pc = "read",
                            ![s].daily_spend_limit = row.daily_spend_limit,
                            ![s].today = today_str,
                            ![s].max_days = reset_cycle_days,
                            ![s].cycle_start = cycle_start_str(reset_cycle_days, today_str)]
    /\ UNCHANGED <<plans, resp>>
    /\ PageFrame

\* get_settings when page loads overlap: the SELECT, and, when it found no
\* row, the INSERT and the second SELECT are separate statements, and another
\* request's statements may run between the first SELECT and the INSERT.

\* index, lines 774-778, after get_settings has returned `row`
index_with_settings(s, row) ==
    LET reset_cycle_days == normalize_cycle_days(<<row.reset_cycle_days>>)
    IN  rq' = [rq EXCEPT ![s].pc = "read",
                         ![s].daily_spend_limit = row.daily_spend_limit,
                         ![s].today = today_str,
                         ![s].max_days = reset_cycle_days,
                         ![s].cycle_start = cycle_start_str(reset_cycle_days, today_str)]

\* get_settings, lines 677-681: SELECT * FROM settings WHERE user_id = ?
index_settings_select(s) ==
    /\ rq[s].op = "index" /\ rq[s].pc = "settings"
    /\ IF HasSettings(settings, rq[s].uid)
       THEN index_with_settings(s, SettingsRow(settings, rq[s].uid))
       ELSE rq' = [rq EXCEPT ![s].pc = "settings_insert"]
    /\ UNCHANGED <<plans, settings, resp>>
    /\ PageFrame

\* get_settings, lines 682-693: the INSERT, the second SELECT and the commit.
\* The INSERT of a row that another request has stored in the meantime breaks
\* UNIQUE (user_id): the IntegrityError is not caught.
index_settings_insert(s) ==
    /\ rq[s].op = "index" /\ rq[s].pc = "settings_insert"
    /\ IF HasSettings(settings, rq[s].uid)
       THEN /\ UNCHANGED settings
            /\ ServerError(s)
            /\ rq' = [rq EXCEPT ![s] = Idle]
       ELSE /\ settings' = get_settings(settings, rq[s].uid)
            /\ index_with_settings(s, SettingsRow(settings', rq[s].uid))
            /\ UNCHANGED resp
    /\ UNCHANGED plans
    /\ PageFrame

\* SELECT * FROM plans WHERE scheduled_date BETWEEN ? AND ? AND user_id = ?
plans_between(P, lo, hi, user_id) ==
    { p \in P : lo <= p.scheduled_date /\ p.scheduled_date <= hi /\ p.user_id = user_id }

\* index: sum(1 for plan in plans if plan["status"] == status);
\* weekly_review: plan_stat_map.get(status, 0)
plans_with_status(rows, status) == Cardinality({ p \in rows : p.status = status })

\* index, lines 780-965: the read transaction and the view model
index_render(s) ==
    /\ rq[s].op = "index" /\ rq[s].pc = "read"
    /\ Respond(s, [NoResp EXCEPT
            !.page = "index.html", !.today = rq[s].today,
            !.rows = plans_between(plans, rq[s].cycle_start, rq[s].today, rq[s].uid),
            !.daily_spend_limit = rq[s].daily_spend_limit,
            !.view = index_view(Tables, rq[s].uid, rq[s].today, rq[s].cycle_start,
                                rq[s].today - 6, rq[s].max_days, today_str)])
    /\ rq' = [rq EXCEPT ![s] = Idle]
    /\ UNCHANGED <<plans, settings>>
    /\ PageFrame

\* about, lines 974-975: get_overview_stats counts the user's plans
about_render(s) ==
    /\ rq[s].op = "about" /\ rq[s].pc = "read"
    /\ Respond(s, [NoResp EXCEPT
            !.page = "about.html",
            !.count = Cardinality({ p \in plans : p.user_id = rq[s].uid }),
            !.view = get_overview_stats(Tables, rq[s].uid)])
    /\ rq' = [rq EXCEPT ![s] = Idle]
    /\ UNCHANGED <<plans, settings>>
    /\ PageFrame

\* weekly_review, lines 984-1056: today is read again, then the plan counts
\* of the trailing seven days
review_render(s) ==
    /\ rq[s].op = "review" /\ rq[s].pc = "read"
    /\ Respond(s, [NoResp EXCEPT
            !.page = "review.html", !.today = today_str,
            !.rows = plans_between(plans, today_str - 6, today_str, rq[s].uid),
            !.view = review_view(Tables, rq[s].uid, today_str - 6, today_str)])
    /\ rq' = [rq EXCEPT ![s] = Idle]
    /\ UNCHANGED <<plans, settings>>
    /\ PageFrame

-----------------------------------------------------------------------------
(* Passwords *)

\* generate_password_hash: a salted hash; the salt is fresh for every call
generate_password_hash(password, salt) == <<password, salt>>

\* check_password_hash
check_password_hash(pwhash, password) == pwhash[1] = password

-----------------------------------------------------------------------------
(* Invitations and registration *)

AuthFrame == UNCHANGED <<now, other, resets, plans, settings, habits, habit_logs, reset_writes>>

\* Mutant: the query forgets `used_by_user_id IS NULL`.
valid_invite_ignores_used(I, token, now_iso) ==
    \E i \in I : i.token = token /\ i.expires_at >= now_iso

\* SELECT * FROM invites
\*   WHERE token = ? AND used_by_user_id IS NULL AND expires_at >= ?
valid_invite(I, token, now_iso) ==
    \E i \in I : i.token = token /\ i.used_by_user_id = 0 /\ i.expires_at >= now_iso

\* POST /invites/create; secrets.token_urlsafe(16) is a token never seen before
create_invite(s) ==
    /\ IsIdle(s)
    /\ \/ RedirectLogin(s) /\ UNCHANGED <<invites, seq>>
       \/ /\ load_user(s) # 0
          /\ seq.invites < MaxInvites
          /\ seq' = [seq EXCEPT !.invites = @ + 1]
          /\ invites' = invites \cup
                {[token |-> seq.invites + 1, inviter_user_id |-> load_user(s),
                  created_at |-> now, expires_at |-> now + 24 * INVITE_DAYS,
                  used_by_user_id |-> 0]}
          /\ Respond(s, [NoResp EXCEPT !.page = "redirect:invites"])
    /\ UNCHANGED <<users, sessions, rq, redeemed>>
    /\ AuthFrame

\* GET /invites: the user's open and used invitations
invites_page(s) ==
    /\ IsIdle(s)
    /\ \/ RedirectLogin(s)
       \/ /\ load_user(s) # 0
          /\ Respond(s, [NoResp EXCEPT
                !.page = "invites.html",
                !.rows = { i \in invites : i.inviter_user_id = load_user(s) /\
                             (i.used_by_user_id # 0 \/ i.expires_at >= now) }])
    /\ UNCHANGED <<seq, users, invites, sessions, rq, redeemed>>
    /\ AuthFrame

\* GET /account: the page with the user's username and email
account_get(s) ==
    /\ IsIdle(s)
    /\ \/ RedirectLogin(s)
       \/ /\ load_user(s) # 0
          /\ Respond(s, [NoResp EXCEPT
                !.page = "account.html",
                !.rows = { <<u.username, u.email>> : u \in
                              { x \in users : x.id = load_user(s) } }])
    /\ UNCHANGED <<seq, users, invites, sessions, rq, redeemed>>
    /\ AuthFrame

\* GET /invite/<token>
accept_invite(s, token) ==
    /\ IsIdle(s)
    /\ IF ~valid_invite(invites, token, now)
       THEN /\ Respond(s, [NoResp EXCEPT !.page = "invite_invalid.html"])
            /\ UNCHANGED sessions
       ELSE /\ sessions' = [sessions EXCEPT ![s].invite_token = token]
            /\ Respond(s, [NoResp EXCEPT !.page = "redirect:register"])
    /\ UNCHANGED <<seq, users, invites, rq, redeemed>>
    /\ AuthFrame

RegisterError(s, error) ==
    Respond(s, [NoResp EXCEPT !.page = "register.html", !.error = error])

\* POST /register, lines 1062-1090: the form is validated and, when the
\* session holds an invite token, the invite is looked up (first transaction)
register_submit(s, form) ==
    /\ IsIdle(s)
    /\ LET invite_token == sessions[s].invite_token
           username == strip_lower(form.username)
           email == strip_lower(form.email)
       IN  IF load_user(s) # 0
           THEN Respond(s, [NoResp EXCEPT !.page = "redirect:index"]) /\ UNCHANGED rq
           ELSE IF username = "" \/ email = "" \/ form.password = ""
           THEN RegisterError(s, "Username, email, and password are required.")
                /\ UNCHANGED rq
           ELSE IF form.password # form.confirm
           THEN RegisterError(s, "Passwords do not match.") /\ UNCHANGED rq
           ELSE IF invite_token # 0 /\ ~valid_invite(invites, invite_token, now)
           THEN RegisterError(s, "That invite link is invalid or expired.")
                /\ UNCHANGED rq
           ELSE /\ rq' = [rq EXCEPT ![s] =
                            [Idle EXCEPT !.op = "register", !.pc = "users_check",
                                         !.token = invite_token,
                                         !.username = username, !.email = email,
                                         !.password = form.password]]
                /\ UNCHANGED resp
    /\ UNCHANGED <<seq, users, invites, sessions, redeemed>>
    /\ AuthFrame

\* Mutant: the invite is marked with the inviter's id instead of the new user's.
redeem_invite_by_inviter(I, token, user_id) ==
    { IF i.token = token THEN [i EXCEPT !.used_by_user_id = i.inviter_user_id] ELSE i :
      i \in I }

\* UPDATE invites SET used_by_user_id = ? WHERE token = ?
redeem_invite(I, token, user_id) ==
    { IF i.token = token THEN [i EXCEPT !.used_by_user_id = user_id] ELSE i : i \in I }

\* The id a new row of users gets: 1 for the first user, otherwise the next
\* value of AUTOINCREMENT / SERIAL
new_user_id(user_count) == IF user_count = 0 THEN 1 ELSE seq.users + 1

\* The id counter of users after an INSERT: AUTOINCREMENT follows the largest
\* id ever stored and hands out nothing when the INSERT fails; SERIAL is
\* consumed by every INSERT that leaves the id to the database, also a failing
\* one, and is untouched by an INSERT that names the id
users_seq_after(user_count, inserted) ==
    IF backend = "sqlite"
    THEN IF inserted THEN Max(seq.users, new_user_id(user_count)) ELSE seq.users
    ELSE IF user_count = 0 THEN seq.users ELSE seq.users + 1

\* POST /register, lines 1093-1108: SELECT COUNT(*) FROM users and
\* SELECT 1 FROM users WHERE email = ?.  The reads take no lock: other
\* requests may write before this one inserts.
register_check(s) ==
    /\ rq[s].op = "register" /\ rq[s].pc = "users_check"
    /\ IF \E u \in users : u.email = rq[s].email
       THEN /\ RegisterError(s, "That email is already registered.")
            /\ rq' = [rq EXCEPT ![s] = Idle]
       ELSE /\ rq' = [rq EXCEPT ![s].pc = "insert",
                                ![s].user_count = Cardinality(users)]
            /\ UNCHANGED resp
    /\ UNCHANGED <<seq, users, invites, sessions, redeemed>>
    /\ AuthFrame

\* POST /register, lines 1109-1179: INSERT INTO users, the invite is marked
\* used and the session is signed in.  A UNIQUE or PRIMARY KEY violation is
\* sqlite3.IntegrityError on sqlite, which the handler catches; on postgres it
\* is psycopg2's IntegrityError, which it does not catch.
register_insert(s) ==
    /\ rq[s].op = "register" /\ rq[s].pc = "insert"
    /\ LET user_id == new_user_id(rq[s].user_count)
           integrity_error == \/ \E u \in users : u.username = rq[s].username
                              \/ \E u \in users : u.id = user_id
       IN  IF integrity_error
           THEN /\ IF backend = "sqlite"
                   THEN RegisterError(s, "That username is taken.")
                   ELSE Respond(s, [NoResp EXCEPT !.page = "error:500"])
                /\ seq' = [seq EXCEPT !.users = users_seq_after(rq[s].user_count, FALSE)]
                /\ UNCHANGED <<users, invites, sessions, redeemed>>
           ELSE /\ users' = users \cup
                      {[id |-> user_id, username |-> rq[s].username,
                        email |-> rq[s].email,
                        password_hash |->
                            generate_password_hash(rq[s].password, seq.salts + 1)]}
                /\ seq' = [seq EXCEPT !.users = users_seq_after(rq[s].user_count, TRUE),
                                      !.salts = @ + 1]
                /\ IF rq[s].token # 0
                   THEN /\ invites' = redeem_invite(invites, rq[s].token, user_id)
                        /\ redeemed' = [redeemed EXCEPT ![rq[s].token] = @ \cup {user_id}]
                        /\ sessions' = [sessions EXCEPT ![s] =
                                          [user_id |-> user_id, invite_token |-> 0]]
                   ELSE /\ UNCHANGED <<invites, redeemed>>
                        /\ sessions' = [sessions EXCEPT ![s].user_id = user_id]
                /\ Respond(s, [NoResp EXCEPT !.page = "redirect:index"])
    /\ rq' = [rq EXCEPT ![s] = Idle]
    /\ AuthFrame

-----------------------------------------------------------------------------
(* Password reset *)

ResetFrame ==
    UNCHANGED <<now, other, invites, plans, settings, habits, habit_logs, sessions, redeemed>>

\* send_reset_email: True when the mail service accepted the mail, False when
\* it is not configured or refused the mail; requests.post raises when the
\* service cannot be reached
MailOutcomes == {"sent", "not_sent", "raised"}

\* POST /password-reset.  The row of the user that the first transaction read
\* is one no other request changes, so both transactions and the mail are one
\* step.
password_reset_request(s, form_email, mail) ==
    /\ IsIdle(s)
    /\ LET email == strip_lower(form_email)
           page == [NoResp EXCEPT !.page = "password_reset_request.html"]
       IN  IF email = ""
           THEN /\ Respond(s, [page EXCEPT !.error = "Enter your email address."])
                /\ UNCHANGED <<seq, resets>>
           ELSE IF ~\E u \in users : u.email = email
           THEN /\ Respond(s, [page EXCEPT !.message =
                                  "If that email exists, a reset link has been sent."])
                /\ UNCHANGED <<seq, resets>>
           ELSE /\ seq.resets < MaxResets
                /\ seq' = [seq EXCEPT !.resets = @ + 1]
                /\ \E u \in users :
                      /\ u.email = email
                      /\ resets' = resets \cup
                            {[id |-> seq.resets + 1, user_id |-> u.id,
                              token |-> seq.resets + 1, created_at |-> now,
                              expires_at |-> now + RESET_HOURS, used |-> 0]}
                /\ CASE mail = "sent" ->
                           Respond(s, [page EXCEPT !.message =
                                         "Reset link sent. Check your email."])
                     [] mail = "raised" ->
                           Respond(s, [NoResp EXCEPT !.page = "error:500"])
                     [] OTHER ->
                           Respond(s, [page EXCEPT !.error =
                                         "Email service is not configured."])
    /\ UNCHANGED <<users, rq, reset_writes>>
    /\ ResetFrame

\* Mutant: the query forgets `expires_at >= ?`.
valid_resets_ignores_expiry(R, token, now_iso) ==
    { r \in R : r.token = token /\ r.used = 0 }

\* SELECT * FROM password_resets WHERE token = ? AND used = 0 AND expires_at >= ?
valid_resets(R, token, now_iso) ==
    { r \in R : r.token = token /\ r.used = 0 /\ r.expires_at >= now_iso }

\* GET or POST /password-reset/<token>, lines 1337-1355 and 1368-1373: the
\* token is looked up (first transaction) and the form is validated
password_reset(s, token, method, form) ==
    /\ IsIdle(s)
    /\ LET found == valid_resets(resets, token, now)
           page == [NoResp EXCEPT !.page = "password_reset_form.html"]
       IN  IF found = {}
           THEN /\ Respond(s, [NoResp EXCEPT !.page = "password_reset_invalid.html"])
                /\ UNCHANGED rq
           ELSE IF method = "GET"
           THEN Respond(s, page) /\ UNCHANGED rq
           ELSE IF form.password = ""
           THEN Respond(s, [page EXCEPT !.error = "Password is required."])
                /\ UNCHANGED rq
           ELSE IF form.password # form.confirm
           THEN Respond(s, [page EXCEPT !.error = "Passwords do not match."])
                /\ UNCHANGED rq
           ELSE /\ \E reset \in found :
                      rq' = [rq EXCEPT ![s] =
                               [Idle EXCEPT !.op = "password_reset", !.pc = "update",
                                            !.token = token, !.rid = reset.id,
                                            !.uid = reset.user_id,
                                            !.password = form.password]]
                /\ UNCHANGED resp
    /\ UNCHANGED <<seq, users, resets, reset_writes>>
    /\ ResetFrame

\* UPDATE users SET password_hash = ? WHERE id = ?
set_password_hash(U, user_id, pwhash) ==
    { IF u.id = user_id THEN [u EXCEPT !.password_hash = pwhash] ELSE u : u \in U }

\* UPDATE password_resets SET used = 1 WHERE id = ?
mark_reset_used(R, reset_id) ==
    { IF r.id = reset_id THEN [r EXCEPT !.used = 1] ELSE r : r \in R }

\* POST /password-reset/<token>, lines 1357-1366 (second transaction)
password_reset_update(s) ==
    /\ rq[s].op = "password_reset" /\ rq[s].pc = "update"
    /\ users' = set_password_hash(users, rq[s].uid,
                    generate_password_hash(rq[s].password, seq.salts + 1))
    /\ seq' = [seq EXCEPT !.salts = @ + 1]
    /\ resets' = mark_reset_used(resets, rq[s].rid)
    /\ reset_writes' = [reset_writes EXCEPT ![rq[s].token] =
                          @ + (IF users' # users THEN 1 ELSE 0)]
    /\ Respond(s, [NoResp EXCEPT !.page = "redirect:login"])
    /\ rq' = [rq EXCEPT ![s] = Idle]
    /\ ResetFrame

-----------------------------------------------------------------------------
(* Login, logout and the account page *)

LoginError(s) ==
    Respond(s, [NoResp EXCEPT !.page = "login.html",
                              !.error = "Invalid username or password."])

\* SELECT * FROM users WHERE username = ? OR email = ?, both parameters being
\* the identifier typed into the form
login_rows(U, username) == { u \in U : u.username = username \/ u.email = username }

\* POST /login.  fetchone() on a query without ORDER BY returns whichever
\* matching row the database produces first.
login(s, identifier, password) ==
    /\ IsIdle(s)
    /\ IF load_user(s) # 0
       THEN Respond(s, [NoResp EXCEPT !.page = "redirect:index"]) /\ UNCHANGED sessions
       ELSE LET rows == login_rows(users, strip_lower(identifier))
            IN  IF rows = {}
                THEN LoginError(s) /\ UNCHANGED sessions
                ELSE \E user \in rows :
                        IF ~check_password_hash(user.password_hash, password)
                        THEN LoginError(s) /\ UNCHANGED sessions
                        ELSE /\ sessions' = [sessions EXCEPT ![s].user_id = user.id]
                             /\ Respond(s, [NoResp EXCEPT !.page = "redirect:index"])
    /\ UNCHANGED <<seq, users, invites, rq, redeemed>>
    /\ AuthFrame

\* POST /logout: session.clear()
logout(s) ==
    /\ IsIdle(s)
    /\ \/ RedirectLogin(s) /\ UNCHANGED sessions
       \/ /\ load_user(s) # 0
          /\ sessions' = [sessions EXCEPT ![s] = [user_id |-> 0, invite_token |-> 0]]
          /\ Respond(s, [NoResp EXCEPT !.page = "redirect:login"])
    /\ UNCHANGED <<seq, users, invites, rq, redeemed>>
    /\ AuthFrame

\* POST /account, lines 1228-1268 up to the UPDATEs: the user's row is read,
\* a new email is looked up among the other users and the current password is
\* checked.  The reads take no lock: other requests may write before this one
\* updates.  email and password of the request are the values to be written,
\* "" for none.
account_submit(s, form) ==
    /\ IsIdle(s)
    /\ \/ RedirectLogin(s) /\ UNCHANGED rq
       \/ /\ load_user(s) # 0
          /\ LET user_id == load_user(s)
                 user == CHOOSE u \in users : u.id = user_id
                 email == strip_lower(form.email)
                 email_new == email # "" /\ email # user.email
                 email_exists == \E u \in users : u.email = email /\ u.id # user_id
                 current_ok == /\ form.current_password # ""
                               /\ check_password_hash(user.password_hash,
                                                      form.current_password)
                 password_ok == /\ form.new_password # ""
                                /\ current_ok
                                /\ form.new_password = form.confirm_password
             IN  rq' = [rq EXCEPT ![s] =
                   [Idle EXCEPT
                      !.op = "account", !.pc = "update", !.uid = user_id,
                      !.form = <<form>>,
                      !.email = IF email_new /\ ~email_exists THEN email ELSE "",
                      !.password = IF password_ok THEN form.new_password ELSE "",
                      !.error =
                          IF form.new_password # "" /\ ~current_ok
                          THEN "Current password is incorrect."
                          ELSE IF form.new_password # "" /\ ~password_ok
                          THEN "New passwords do not match."
                          ELSE IF email_new /\ email_exists
                          THEN "That email is already registered."
                          ELSE "",
                      !.message =
                          IF password_ok THEN "Password updated."
                          ELSE IF email_new /\ ~email_exists THEN "Email updated."
                          ELSE ""]]
          /\ UNCHANGED resp
    /\ UNCHANGED <<seq, users, invites, sessions, redeemed>>
    /\ AuthFrame

\* UPDATE users SET email = ? WHERE id = ?
set_email(U, user_id, email) ==
    { IF u.id = user_id THEN [u EXCEPT !.email = email] ELSE u : u \in U }

\* POST /account, lines 1250-1282: the UPDATEs of the first transaction and the
\* page built from the row read back in the second
account_update(s) ==
    /\ rq[s].op = "account" /\ rq[s].pc = "update"
    /\ LET r == rq[s]
           U1 == IF r.email # "" THEN set_email(users, r.uid, r.email) ELSE users
           U2 == IF r.password # ""
                 THEN set_password_hash(U1, r.uid,
                          generate_password_hash(r.password, seq.salts + 1))
                 ELSE U1
       IN  /\ users' = U2
           /\ seq' = IF r.password # "" THEN [seq EXCEPT !.salts = @ + 1] ELSE seq
           /\ Respond(s, [NoResp EXCEPT
                            !.page = "account.html", !.error = r.error,
                            !.message = r.message,
                            !.rows = { <<u.username, u.email>> : u \in
                                          { x \in U2 : x.id = r.uid } }])
    /\ rq' = [rq EXCEPT ![s] = Idle]
    /\ UNCHANGED <<invites, sessions, redeemed>>
    /\ AuthFrame

-----------------------------------------------------------------------------
(* Start-up *)

\* init_db: no id has been handed out
NoIds == [users |-> 0, plans |-> 0, habits |-> 0, resets |-> 0, salts |-> 0,
          invites |-> 0, checklist_items |-> 0, routines |-> 0, routine_items |-> 0,
          spending_entries |-> 0, spending_budgets |-> 0]

\* init_db: the tables are created empty
NoOther ==
    /\ checklist_items = {}
    /\ routines = {}
    /\ routine_items = {}
    /\ routine_item_logs = {}
    /\ spending_entries = {}
    /\ spending_budgets = {}
    /\ daily_reflections = {}

-----------------------------------------------------------------------------
(* The planner: two signed-in users, requests served one after another *)

TwoUsers ==
    { [id |-> 1, username |-> "ann", email |-> "ann@x", password_hash |-> <<"pw1", 1>>],
      [id |-> 2, username |-> "bob", email |-> "bob@x", password_hash |-> <<"pw2", 2>>] }

InitEmpty ==
    /\ now = 24
    /\ seq = NoIds
    /\ users = {}
    /\ invites = {}
    /\ resets = {}
    /\ plans = {}
    /\ settings = {}
    /\ habits = {}
    /\ habit_logs = {}
    /\ NoOther
    /\ backend = "sqlite"
    /\ sessions = [s \in Sessions |-> [user_id |-> 0, invite_token |-> 0]]
    /\ rq = [s \in Sessions |-> Idle]
    /\ resp = NoResp
    /\ redeemed = << >>
    /\ reset_writes = << >>

InitPlans ==
    /\ now = 24
    /\ seq = [NoIds EXCEPT !.users = 2, !.salts = 2]
    /\ users = TwoUsers
    /\ invites = {}
    /\ resets = {}
    /\ plans = {}
    /\ settings = {}
    /\ habits = {}
    /\ habit_logs = {}
    /\ NoOther
    /\ backend = "sqlite"
    /\ sessions = [s \in Sessions |->
                     [user_id |-> IF s = "s1" THEN 1 ELSE IF s = "s2" THEN 2 ELSE 0,
                      invite_token |-> 0]]
    /\ rq = [s \in Sessions |-> Idle]
    /\ resp = NoResp
    /\ redeemed = << >>
    /\ reset_writes = << >>

\* Two habits, one of each user, with the targets add_habit stored.
InitHabits ==
    /\ now = 24
    /\ seq = [NoIds EXCEPT !.users = 2, !.habits = 2, !.salts = 2]
    /\ users = TwoUsers
    /\ invites = {}
    /\ resets = {}
    /\ plans = {}
    /\ settings = {}
    /\ \E target_count \in 0..2 :
          habits = { [id |-> 1, user_id |-> 1, target_count |-> target_count, active |-> 1],
                     [id |-> 2, user_id |-> 2, target_count |-> 1, active |-> 1] }
    /\ habit_logs = {}
    /\ NoOther
    /\ backend = "sqlite"
    /\ sessions = [s \in Sessions |->
                     [user_id |-> IF s = "s1" THEN 1 ELSE IF s = "s2" THEN 2 ELSE 0,
                      invite_token |-> 0]]
    /\ rq = [s \in Sessions |-> Idle]
    /\ resp = NoResp
    /\ redeemed = << >>
    /\ reset_writes = << >>

NextHabits ==
    \/ TickDay(MaxHabitDay)
    \/ \E s \in {"s1", "s2"}, habit_id \in 1..2 : log_habit(s, habit_id)
    \/ \E s \in {"s1", "s2"}, habit_id \in 1..2 : reset_habit(s, habit_id)
    \/ \E max_days \in {0, 1, MaxWindow} : habit_streaks_call(max_days)

SpecHabits == InitHabits /\ [][NextHabits]_vars

PlanSessions == {"s1", "s2"}

NextPlans ==
    \/ TickDay(MaxDay)
    \/ \E s \in PlanSessions : OthersIdle(s) /\
          \E title \in {" ", "walk"}, sd \in Days \cup {-1} : add_plan(s, title, sd)
    \/ \E s \in PlanSessions, id \in 1..MaxPlans : OthersIdle(s) /\ complete_plan(s, id)
    \/ \E s \in PlanSessions, id \in 1..MaxPlans : OthersIdle(s) /\ reopen_plan(s, id)
    \/ \E s \in PlanSessions, id \in 1..MaxPlans : OthersIdle(s) /\ delete_plan(s, id)
    \/ \E s \in PlanSessions : OthersIdle(s) /\ index_rollover(s)
    \/ \E s \in PlanSessions : index_settings(s)
    \/ \E s \in PlanSessions : index_render(s)
    \/ \E s \in PlanSessions : OthersIdle(s) /\ about_rollover(s)
    \/ \E s \in PlanSessions : about_render(s)
    \/ \E s \in PlanSessions : OthersIdle(s) /\ review_rollover(s)
    \/ \E s \in PlanSessions : review_render(s)

SpecPlans == InitPlans /\ [][NextPlans]_vars

\* One registered user, signed in on browser s1; s2 and s3 are visitors, who
\* follow invite links and register.
Visitors == {"s2", "s3"}

OneUser ==
    { [id |-> 1, username |-> "ann", email |-> "ann@x", password_hash |-> <<"pw1", 1>>] }

Tokens == 1..(MaxInvites + 1)

InitInvites ==
    /\ now = 0
    /\ seq = [NoIds EXCEPT !.users = 1, !.salts = 1]
    /\ users = OneUser
    /\ invites = {}
    /\ resets = {}
    /\ plans = {}
    /\ settings = {}
    /\ habits = {}
    /\ habit_logs = {}
    /\ NoOther
    /\ backend = "sqlite"
    /\ sessions = [s \in Sessions |->
                     [user_id |-> IF s = "s1" THEN 1 ELSE 0, invite_token |-> 0]]
    /\ rq = [s \in Sessions |-> Idle]
    /\ resp = NoResp
    /\ redeemed = [t \in Tokens |-> {}]
    /\ reset_writes = << >>

\* The registration forms submitted
Forms ==
    { [username |-> " bob ", email |-> "bob@x", password |-> "pw", confirm |-> "pw"],
      [username |-> "cy", email |-> "cy@x", password |-> "pw", confirm |-> "pw"],
      [username |-> " Ann ", email |-> "cy@x", password |-> "pw", confirm |-> "pw"],
      [username |-> "cy", email |-> "ANN@X", password |-> "pw", confirm |-> "pw"],
      [username |-> " ", email |-> "bob@x", password |-> "pw", confirm |-> "pw"],
      [username |-> "bob", email |-> "bob@x", password |-> "pw", confirm |-> "no"] }

NextInvites ==
    \/ now < 24 * INVITE_DAYS /\ Tick(24 * INVITE_DAYS)
    \/ now >= 24 * INVITE_DAYS /\ now < 24 * INVITE_DAYS + MaxHours /\ Tick(1)
    \/ \E s \in Sessions \ Visitors : create_invite(s)
    \/ \E s \in Visitors, token \in Tokens : accept_invite(s, token)
    \/ \E s \in Visitors, form \in Forms : register_submit(s, form)
    \/ \E s \in Visitors : register_check(s)
    \/ \E s \in Visitors : register_insert(s)

SpecInvites == InitInvites /\ [][NextInvites]_vars

ResetTokens == 1..(MaxResets + 1)

\* Two registered users; nobody is signed in.
InitResets ==
    /\ now = 0
    /\ seq = [NoIds EXCEPT !.users = 2, !.salts = 2]
    /\ users = TwoUsers
    /\ invites = {}
    /\ resets = {}
    /\ plans = {}
    /\ settings = {}
    /\ habits = {}
    /\ habit_logs = {}
    /\ NoOther
    /\ backend = "sqlite"
    /\ sessions = [s \in Sessions |-> [user_id |-> 0, invite_token |-> 0]]
    /\ rq = [s \in Sessions |-> Idle]
    /\ resp = NoResp
    /\ redeemed = << >>
    /\ reset_writes = [t \in ResetTokens |-> 0]

\* A GET carries no form
NoForm == [password |-> "", confirm |-> ""]

\* The new-password forms submitted
PasswordForms ==
    { [password |-> "new1", confirm |-> "new1"],
      [password |-> "new2", confirm |-> "new2"],
      [password |-> "", confirm |-> ""],
      [password |-> "new1", confirm |-> "new2"] }

NextResets ==
    \/ now < MaxResetHour /\ Tick(1)
    \/ \E s \in Visitors, form_email \in {" ", "ANN@X", "zed@x"},
          mail \in MailOutcomes : password_reset_request(s, form_email, mail)
    \/ \E s \in Visitors, token \in ResetTokens :
          \/ password_reset(s, token, "GET", NoForm)
          \/ \E form \in PasswordForms : password_reset(s, token, "POST", form)
    \/ \E s \in Visitors : password_reset_update(s)

SpecResets == InitResets /\ [][NextResets]_vars

\* Accounts: ann is registered and uses browser s1 to sign out, sign in and
\* edit the account; visitors register, on either backend.
MaxHashes == 3
MaxUserId == 3

Backends == {"sqlite", "postgres"}

InitAccounts ==
    /\ now = 0
    /\ backend \in Backends
    /\ seq = [NoIds EXCEPT !.users = IF backend = "sqlite" THEN 1 ELSE 0, !.salts = 1]
    /\ users = OneUser
    /\ invites = {}
    /\ resets = {}
    /\ plans = {}
    /\ settings = {}
    /\ habits = {}
    /\ habit_logs = {}
    /\ NoOther
    /\ sessions = [s \in Sessions |->
                     [user_id |-> IF s = "s1" THEN 1 ELSE 0, invite_token |-> 0]]
    /\ rq = [s \in Sessions |-> Idle]
    /\ resp = NoResp
    /\ redeemed = << >>
    /\ reset_writes = << >>

\* The registration forms submitted: a username may be any text, also another
\* user's email address
AccountRegisterForms ==
    { [username |-> "bob", email |-> "bob@x", password |-> "pw", confirm |-> "pw"],
      [username |-> "ANN@X", email |-> "bob@x", password |-> "pw", confirm |-> "pw"],
      [username |-> " Ann ", email |-> "cy@x", password |-> "pw", confirm |-> "pw"] }

\* The account forms submitted
AccountForms ==
    { [email |-> "bob@x", current_password |-> "", new_password |-> "",
       confirm_password |-> ""],
      [email |-> "", current_password |-> "pw1", new_password |-> "pw",
       confirm_password |-> "pw"],
      [email |-> "ANN@X", current_password |-> "pw", new_password |-> "pw1",
       confirm_password |-> "no"] }

Identifiers == {" Ann ", "ANN@X", "bob", "bob@x"}

Passwords == {"pw1", "pw"}

NextAccounts ==
    \/ \E s \in Visitors, form \in AccountRegisterForms :
          seq.salts < MaxHashes /\ seq.users < MaxUserId /\ register_submit(s, form)
    \/ \E s \in Visitors : register_check(s)
    \/ \E s \in Visitors : register_insert(s)
    \/ \E s \in Sessions \ Visitors, identifier \in Identifiers, password \in Passwords :
          login(s, identifier, password)
    \/ \E s \in Sessions \ Visitors : logout(s)
    \/ \E s \in Sessions \ Visitors, form \in AccountForms :
          seq.salts < MaxHashes /\ account_submit(s, form)
    \/ \E s \in Sessions \ Visitors : account_update(s)

SpecAccounts == InitAccounts /\ [][NextAccounts]_vars

\* The dashboard: ann and bob are signed in on s1 and s2 and use every form
\* of the dashboard.  ann has a routine with one item and a habit, bob has a
\* habit; the rows created after that are capped at MaxData.
MaxData == 2

SeedRoutines == { [id |-> 1, user_id |-> 1, name |-> "x", time_of_day |-> "any", active |-> 1] }

SeedRoutineItems ==
    { [id |-> 1, routine_id |-> 1, user_id |-> 1, label |-> "x", sort_order |-> 0] }

SeedHabits ==
    { [id |-> 1, user_id |-> 1, target_count |-> 2, active |-> 1],
      [id |-> 2, user_id |-> 2, target_count |-> 1, active |-> 1] }

\* The rows created since start-up
data_size ==
    seq.plans + seq.habits + seq.checklist_items + seq.routines + seq.routine_items
    + seq.spending_entries + seq.spending_budgets + Cardinality(settings)
    + Cardinality(habit_logs) + Cardinality(routine_item_logs)
    + Cardinality(daily_reflections)
    - Cardinality(SeedRoutines) - Cardinality(SeedRoutineItems) - Cardinality(SeedHabits)

InitData ==
    /\ now = 24
    /\ seq = [NoIds EXCEPT !.users = 2, !.salts = 2, !.habits = 2, !.routines = 1,
                           !.routine_items = 1]
    /\ users = TwoUsers
    /\ invites = {}
    /\ resets = {}
    /\ plans = {}
    /\ settings = {}
    /\ habits = SeedHabits
    /\ habit_logs = {}
    /\ checklist_items = {}
    /\ routines = SeedRoutines
    /\ routine_items = SeedRoutineItems
    /\ routine_item_logs = {}
    /\ spending_entries = {}
    /\ spending_budgets = {}
    /\ daily_reflections = {}
    /\ backend = "sqlite"
    /\ sessions = [s \in Sessions |->
                     [user_id |-> IF s = "s1" THEN 1 ELSE IF s = "s2" THEN 2 ELSE 0,
                      invite_token |-> 0]]
    /\ rq = [s \in Sessions |-> Idle]
    /\ resp = NoResp
    /\ redeemed = << >>
    /\ reset_writes = << >>

ReflectionForms ==
    { [mood |-> "ok", wins |-> " ", blockers |-> "", gratitude |-> ""] }

\* The ids a request names: those of the stored rows, whoever owns them, and
\* one id that no row has
Ids(rows) == { r.id : r \in rows } \cup {0}

NextData ==
    \/ \E s \in PlanSessions : data_size < MaxData /\ add_plan(s, "walk", 0)
    \/ \E s \in PlanSessions, id \in Ids(plans) : complete_plan(s, id)
    \/ \E s \in PlanSessions, id \in Ids(plans) : reopen_plan(s, id)
    \/ \E s \in PlanSessions, id \in Ids(plans) : delete_plan(s, id)
    \/ \E s \in PlanSessions : data_size < MaxData /\ add_checklist_item(s, "x", -1)
    \/ \E s \in PlanSessions, id \in Ids(checklist_items) : toggle_checklist_item(s, id)
    \/ \E s \in PlanSessions, id \in Ids(checklist_items) : delete_checklist_item(s, id)
    \/ \E s \in PlanSessions : data_size < MaxData /\ add_routine(s, "x")
    \/ \E s \in PlanSessions, id \in Ids(routines) :
          data_size < MaxData /\ add_routine_item(s, id, "x", "3")
    \/ \E s \in PlanSessions, id \in Ids(routine_items) :
          data_size < MaxData /\ toggle_routine_item(s, id)
    \/ \E s \in PlanSessions : data_size < MaxData /\ add_habit(s, "x", "2")
    \/ \E s \in PlanSessions, id \in Ids(habits) : data_size < MaxData /\ log_habit(s, id)
    \/ \E s \in PlanSessions, id \in Ids(habits) : data_size < MaxData /\ reset_habit(s, id)
    \/ \E s \in PlanSessions : data_size < MaxData /\ add_spending(s, "5", "Food", -1)
    \/ \E s \in PlanSessions, id \in Ids(spending_entries) : delete_spending(s, id)
    \/ \E s \in PlanSessions : data_size < MaxData /\ update_spend_limit(s, "10")
    \/ \E s \in PlanSessions : data_size < MaxData /\ update_reset_cycle(s, "3")
    \/ \E s \in PlanSessions, form \in ReflectionForms :
          data_size < MaxData /\ save_reflection(s, -1, form)
    \/ \E s \in PlanSessions : data_size < MaxData /\ add_budget(s, "Food", "10", "")
    \/ \E s \in PlanSessions, id \in Ids(spending_budgets) : delete_budget(s, id)
    \/ \E s \in PlanSessions : OthersIdle(s) /\ data_size < MaxData /\ index_rollover(s)
    \/ \E s \in PlanSessions : index_settings(s)
    \/ \E s \in PlanSessions : index_render(s)

SpecData == InitData /\ [][NextData]_vars

\* Money and settings: ann and bob record spending, set limits, budgets and
\* the reset cycle and save reflections, on either backend; the rows ever
\* created are capped at MaxData.
money_rows ==
    seq.spending_entries + seq.spending_budgets + Cardinality(settings)
    + Cardinality(daily_reflections)

InitMoney ==
    /\ now = 24
    /\ backend \in Backends
    /\ seq = [NoIds EXCEPT !.users = 2, !.salts = 2]
    /\ users = TwoUsers
    /\ invites = {}
    /\ resets = {}
    /\ plans = {}
    /\ settings = {}
    /\ habits = {}
    /\ habit_logs = {}
    /\ NoOther
    /\ sessions = [s \in Sessions |->
                     [user_id |-> IF s = "s1" THEN 1 ELSE IF s = "s2" THEN 2 ELSE 0,
                      invite_token |-> 0]]
    /\ rq = [s \in Sessions |-> Idle]
    /\ resp = NoResp
    /\ redeemed = << >>
    /\ reset_writes = << >>

\* The amounts typed into the spending form
AmountTexts == {"abc", " ", "0", "-2", "5", "nan"}

\* The limits typed into the spend-limit and budget forms
LimitTexts == {"10", "20", "nan"}

\* The values submitted as reset_cycle_days
CycleTexts == {"", "abc", "3", " 30 ", "1000"}

MoodForms ==
    { [mood |-> "ok", wins |-> " ", blockers |-> "", gratitude |-> ""],
      [mood |-> "low", wins |-> "x", blockers |-> "", gratitude |-> ""] }

NextMoney ==
    \/ \E s \in PlanSessions, amount \in AmountTexts :
          money_rows < MaxData /\ add_spending(s, amount, "Food", -1)
    \/ \E s \in PlanSessions, id \in Ids(spending_entries) : delete_spending(s, id)
    \/ \E s \in PlanSessions, daily_spend_limit \in LimitTexts \cup {"abc"} :
          money_rows < MaxData /\ update_spend_limit(s, daily_spend_limit)
    \/ \E s \in PlanSessions, reset_cycle_days \in CycleTexts :
          money_rows < MaxData /\ update_reset_cycle(s, reset_cycle_days)
    \/ \E s \in PlanSessions, form \in MoodForms :
          money_rows < MaxData /\ save_reflection(s, -1, form)
    \/ \E s \in PlanSessions, category \in {"Food", " "}, daily_limit \in LimitTexts :
          money_rows < MaxData /\ add_budget(s, category, daily_limit, "")
    \/ \E s \in PlanSessions, id \in Ids(spending_budgets) : delete_budget(s, id)
    \/ \E s \in PlanSessions : OthersIdle(s) /\ money_rows < MaxData /\ index_rollover(s)
    \/ \E s \in PlanSessions : index_settings(s)
    \/ \E s \in PlanSessions : index_render(s)

SpecMoney == InitMoney /\ [][NextMoney]_vars

\* Settings, budgets and reflections alone: the handlers that write the three
\* upserted tables (the page load creates the settings row on first read).
NextUpserts ==
    \/ \E s \in PlanSessions, daily_spend_limit \in LimitTexts \cup {"abc"} :
          money_rows < MaxData /\ update_spend_limit(s, daily_spend_limit)
    \/ \E s \in PlanSessions, reset_cycle_days \in CycleTexts :
          money_rows < MaxData /\ update_reset_cycle(s, reset_cycle_days)
    \/ \E s \in PlanSessions, form \in MoodForms :
          money_rows < MaxData /\ save_reflection(s, -1, form)
    \/ \E s \in PlanSessions, category \in {"Food", " "}, daily_limit \in LimitTexts :
          money_rows < MaxData /\ add_budget(s, category, daily_limit, "")
    \/ \E s \in PlanSessions, id \in Ids(spending_budgets) : delete_budget(s, id)
    \/ \E s \in PlanSessions : OthersIdle(s) /\ money_rows < MaxData /\ index_rollover(s)
    \/ \E s \in PlanSessions : index_settings(s)
    \/ \E s \in PlanSessions : index_render(s)

SpecUpserts == InitMoney /\ [][NextUpserts]_vars

\* ann is signed in on two browsers (s1, s3) and bob on one; their requests
\* to log habits overlap.  A reset is served while no log request is under
\* way.
InitHabitRace ==
    /\ now = 24
    /\ seq = [NoIds EXCEPT !.users = 2, !.habits = 2, !.salts = 2]
    /\ users = TwoUsers
    /\ invites = {}
    /\ resets = {}
    /\ plans = {}
    /\ settings = {}
    /\ habits = { [id |-> 1, user_id |-> 1, target_count |-> 1, active |-> 1],
                  [id |-> 2, user_id |-> 2, target_count |-> 1, active |-> 1] }
    /\ habit_logs = {}
    /\ NoOther
    /\ backend \in Backends
    /\ sessions = [s \in Sessions |->
                     [user_id |-> IF s = "s2" THEN 2 ELSE 1, invite_token |-> 0]]
    /\ rq = [s \in Sessions |-> Idle]
    /\ resp = NoResp
    /\ redeemed = << >>
    /\ reset_writes = << >>

NextHabitRace ==
    \/ TickDay(MaxDay)
    \/ \E s \in Sessions, habit_id \in 1..2 : log_habit_select(s, habit_id)
    \/ \E s \in Sessions : log_habit_write(s)
    \/ \E s \in Sessions, habit_id \in 1..2 :
          OthersIdle(s) /\ reset_habit(s, habit_id)

SpecHabitRace == InitHabitRace /\ [][NextHabitRace]_vars

\* ann loads the dashboard on two browsers (s1, s3) and bob on one, for the
\* first time; the page loads overlap.
NextSettingsRace ==
    \/ \E s \in Sessions : index_rollover(s)
    \/ \E s \in Sessions : index_settings_select(s)
    \/ \E s \in Sessions : index_settings_insert(s)
    \/ \E s \in Sessions : index_render(s)

SpecSettingsRace == InitHabitRace /\ [][NextSettingsRace]_vars

\* Streaks on the dashboard: ann has set the shortest reset cycle (7 days)
\* and has two habits, one with target 1 and one with target 0 (add_habit
\* stores the integer submitted); on day 7 the first habit has logs for some
\* of the days 1..7.  ann logs habits and loads the dashboard while the clock
\* runs.
MaxStreakDay == 8

StreakHabits ==
    { [id |-> 1, user_id |-> 1, target_count |-> 1, active |-> 1],
      [id |-> 2, user_id |-> 1, target_count |-> 0, active |-> 1] }

InitStreaks ==
    /\ now = 24 * 7
    /\ seq = [NoIds EXCEPT !.users = 2, !.habits = 2, !.salts = 2]
    /\ users = TwoUsers
    /\ invites = {}
    /\ resets = {}
    /\ plans = {}
    /\ settings = {[user_id |-> 1, daily_spend_limit |-> Num(0), reset_cycle_days |-> 7]}
    /\ habits = StreakHabits
    /\ \E logged \in SUBSET (1..7) :
          habit_logs = { [habit_id |-> 1, user_id |-> 1, log_date |-> d, count |-> 1] :
                         d \in logged }
    /\ NoOther
    /\ backend = "sqlite"
    /\ sessions = [s \in Sessions |->
                     [user_id |-> IF s = "s1" THEN 1 ELSE 0, invite_token |-> 0]]
    /\ rq = [s \in Sessions |-> Idle]
    /\ resp = NoResp
    /\ redeemed = << >>
    /\ reset_writes = << >>

NextStreaks ==
    \/ TickDay(MaxStreakDay)
    \/ \E habit_id \in 1..2 : log_habit("s1", habit_id)
    \/ index_rollover("s1")
    \/ index_settings("s1")
    \/ index_render("s1")

SpecStreaks == InitStreaks /\ [][NextStreaks]_vars

\* Signed-out browsers: ann is signed in on s1, s2 carries no user_id and s3
\* carries the id of a user that has no row.
InitGuests ==
    /\ now = 24
    /\ seq = [NoIds EXCEPT !.users = 2, !.salts = 2, !.habits = 2, !.routines = 1,
                           !.routine_items = 1]
    /\ users = TwoUsers
    /\ invites = {}
    /\ resets = {}
    /\ plans = {}
    /\ settings = {}
    /\ habits = SeedHabits
    /\ habit_logs = {}
    /\ checklist_items = {}
    /\ routines = SeedRoutines
    /\ routine_items = SeedRoutineItems
    /\ routine_item_logs = {}
    /\ spending_entries = {}
    /\ spending_budgets = {}
    /\ daily_reflections = {}
    /\ backend = "sqlite"
    /\ sessions = [s \in Sessions |->
                     [user_id |-> IF s = "s1" THEN 1 ELSE IF s = "s3" THEN 3 ELSE 0,
                      invite_token |-> 0]]
    /\ rq = [s \in Sessions |-> Idle]
    /\ resp = NoResp
    /\ redeemed = << >>
    /\ reset_writes = << >>

\* The browsers that start without a user
Guests == {"s2", "s3"}

\* ann adds and completes plans, loads the overview, hands out an invitation,
\* changes the account and signs out; the guests send every login-protected
\* request.
NextGuests ==
    \/ \E s \in Sessions : add_plan(s, "walk", 0)
    \/ \E s \in Sessions, id \in Ids(plans) : complete_plan(s, id)
    \/ \E s \in Guests, id \in Ids(plans) : reopen_plan(s, id)
    \/ \E s \in Guests, id \in Ids(plans) : delete_plan(s, id)
    \/ \E s \in Guests : add_checklist_item(s, "x", -1)
    \/ \E s \in Guests, id \in Ids(checklist_items) : toggle_checklist_item(s, id)
    \/ \E s \in Guests, id \in Ids(checklist_items) : delete_checklist_item(s, id)
    \/ \E s \in Guests : add_routine(s, "x")
    \/ \E s \in Guests, id \in Ids(routines) : add_routine_item(s, id, "x", "3")
    \/ \E s \in Guests, id \in Ids(routine_items) : toggle_routine_item(s, id)
    \/ \E s \in Guests : add_habit(s, "x", "2")
    \/ \E s \in Guests, id \in Ids(habits) : log_habit(s, id)
    \/ \E s \in Guests, id \in Ids(habits) : reset_habit(s, id)
    \/ \E s \in Guests : add_spending(s, "5", "Food", -1)
    \/ \E s \in Guests, id \in Ids(spending_entries) : delete_spending(s, id)
    \/ \E s \in Guests : update_spend_limit(s, "10")
    \/ \E s \in Guests : update_reset_cycle(s, "3")
    \/ \E s \in Guests, form \in ReflectionForms : save_reflection(s, -1, form)
    \/ \E s \in Guests : add_budget(s, "Food", "10", "")
    \/ \E s \in Guests, id \in Ids(spending_budgets) : delete_budget(s, id)
    \/ \E s \in Sessions : OthersIdle(s) /\ index_rollover(s)
    \/ \E s \in Sessions : index_settings(s)
    \/ \E s \in Sessions : index_render(s)
    \/ \E s \in Guests : about_rollover(s)
    \/ \E s \in Guests : review_rollover(s)
    \/ \E s \in Sessions : invites_page(s)
    \/ \E s \in Sessions : create_invite(s)
    \/ \E s \in Sessions : account_get(s)
    \/ \E s \in Sessions, form \in AccountForms :
          seq.salts < MaxHashes /\ account_submit(s, form)
    \/ \E s \in Sessions : account_update(s)
    \/ \E s \in Sessions : logout(s)

SpecGuests == InitGuests /\ [][NextGuests]_vars

\* Password changes: ann is signed in on s1 and s3, bob on s2; their account
\* requests overlap.
InitPasswords ==
    /\ now = 0
    /\ backend \in Backends
    /\ seq = [NoIds EXCEPT !.users = 2, !.salts = 2]
    /\ users = TwoUsers
    /\ invites = {}
    /\ resets = {}
    /\ plans = {}
    /\ settings = {}
    /\ habits = {}
    /\ habit_logs = {}
    /\ NoOther
    /\ sessions = [s \in Sessions |->
                     [user_id |-> IF s = "s2" THEN 2 ELSE 1, invite_token |-> 0]]
    /\ rq = [s \in Sessions |-> Idle]
    /\ resp = NoResp
    /\ redeemed = << >>
    /\ reset_writes = << >>

\* The password forms submitted: ann's and bob's current passwords, a wrong
\* one, and a confirmation that differs
AccountPasswordForms ==
    { [email |-> "", current_password |-> "pw1", new_password |-> "pw3",
       confirm_password |-> "pw3"],
      [email |-> "", current_password |-> "pw2", new_password |-> "pw4",
       confirm_password |-> "pw4"],
      [email |-> "", current_password |-> "", new_password |-> "pw5",
       confirm_password |-> "pw5"],
      [email |-> "", current_password |-> "pw1", new_password |-> "pw6",
       confirm_password |-> "no"],
      [email |-> "", current_password |-> "pw2", new_password |-> "",
       confirm_password |-> ""] }

NextPasswords ==
    \/ \E s \in Sessions, form \in AccountPasswordForms :
          seq.salts < MaxHashes /\ account_submit(s, form)
    \/ \E s \in Sessions : account_update(s)

SpecPasswords == InitPasswords /\ [][NextPasswords]_vars




-----------------------------------------------------------------------------
(* Rollover of missed plans *)

\* Browser s takes the rollover step of a page load for user u.
RolloverStep(s, u) ==
    /\ IsIdle(s)
    /\ rq'[s].pc # "idle"
    /\ rq'[s].op \in {"index", "about", "review"}
    /\ rq'[s].uid = u

PlanIds(P) == { p.id : p \in P }

\* C1: after update_missed_plans(u) runs on date T, every plan of u that was
\* pending with scheduled_date < T is missed, and every other plan (of u with
\* scheduled_date >= T, of u and done or missed, of another user) is as it was.
C1_RolloverPostcondition ==
    [][\A s \in Sessions, u \in UserIds :
          RolloverStep(s, u) =>
             /\ PlanIds(plans') = PlanIds(plans)
             /\ \A p \in plans :
                   IF p.user_id = u /\ p.status = "pending" /\ p.scheduled_date < today_str
                   THEN [p EXCEPT !.status = "missed"] \in plans'
                   ELSE p \in plans']_vars

\* A page load is past its rollover and a plan of its user, scheduled before
\* today, is missed.
C1_Witness ==
    \E s \in Sessions :
       /\ rq[s].pc # "idle"
       /\ \E p \in plans : /\ p.user_id = rq[s].uid
                            /\ p.status = "missed"
                            /\ p.scheduled_date < today_str

\* C2: a plan's status becomes missed only in a rollover step for its owner,
\* and only if just before that step the plan was pending and scheduled
\* strictly before the current date; no plan is created as missed.
C2_MissedOnlyByRollover ==
    [][\A q \in plans' :
          (q.status = "missed" /\ ~(\E p \in plans : p.id = q.id /\ p.status = "missed"))
          => /\ \E s \in Sessions : RolloverStep(s, q.user_id)
             /\ \E p \in plans : /\ p.id = q.id
                                  /\ p.status = "pending"
                                  /\ p.scheduled_date < today_str]_vars

\* A plan scheduled for the day before today has been rolled over to missed,
\* and every request has finished.
C2_Witness ==
    /\ \A s \in Sessions : IsIdle(s)
    /\ \E p \in plans : p.status = "missed" /\ p.scheduled_date = today_str - 1
    /\ today_str = 2

\* C3: no view a page load produces shows or counts as pending a plan whose
\* scheduled_date is before the view's today (requests run one after another
\* in SpecPlans).
C3_NoStalePendingInView ==
    resp.page \in {"index.html", "review.html"} =>
        \A p \in resp.rows : ~(p.status = "pending" /\ p.scheduled_date < resp.today)

-----------------------------------------------------------------------------
(* Habit streaks *)

\* Habit h has a log row for day d with a count that meets its target.
MetOn(h, d) ==
    \E r \in habit_logs : /\ r.habit_id = h.id
                           /\ r.log_date = d
                           /\ r.count >= h.target_count

\* C4: for a habit with target_count > 0 the streak is the number N such that
\* each of the N days ending today has a logged count >= target_count and the
\* day N+1 back is missing from the logs, below target or beyond the window
\* (N = max_days).
C4_StreakIsRunEndingToday ==
    resp.page = "habit_streaks" =>
        \A h \in habits :
            h.target_count > 0 =>
                LET N == resp.streaks[h.id]
                IN  /\ N \in 0..resp.max_days
                    /\ \A k \in 0..(N - 1) : MetOn(h, resp.today - k)
                    /\ N = resp.max_days \/ ~MetOn(h, resp.today - N)

\* The spec's scenario: target 2, today 2, yesterday 2, two days ago 1, and
\* the streak reported is 2.
C4_Witness ==
    /\ resp.page = "habit_streaks"
    /\ resp.max_days = 3
    /\ \E h \in habits :
          /\ h.target_count = 2
          /\ log_count(habit_logs, h.id, resp.today) = 2
          /\ log_count(habit_logs, h.id, resp.today - 1) = 2
          /\ log_count(habit_logs, h.id, resp.today - 2) = 1
          /\ resp.streaks[h.id] = 2

\* C5: the streak is 0 for every habit whose log for today is missing or has
\* count < target_count, whatever was logged on earlier days.
C5_ZeroUntilTodayMet ==
    resp.page = "habit_streaks" =>
        \A h \in habits :
            (\A r \in log_rows(habit_logs, h.id, resp.today) : r.count < h.target_count)
            => resp.streaks[h.id] = 0

\* The date advanced after a day on which the target was met, nothing is
\* logged today, and the streak reported on the new day is 0.
C5_Witness ==
    /\ resp.page = "habit_streaks"
    /\ resp.today = today_str
    /\ resp.max_days >= 2
    /\ \E h \in habits :
          /\ h.target_count > 0
          /\ MetOn(h, resp.today - 1)
          /\ log_rows(habit_logs, h.id, resp.today) = {}
          /\ resp.streaks[h.id] = 0

-----------------------------------------------------------------------------
(* Invitations *)

\* C6: an invite token is single-use: over any interleaving of register
\* requests from different sessions that hold the same valid token, at most one
\* user is created with that token, and once the invite's used_by_user_id is
\* non-null it never changes.
C6_InviteSingleUse ==
    [][ /\ \A t \in Tokens : Cardinality(redeemed'[t]) <= 1
        /\ \A i \in invites : i.used_by_user_id # 0 => i \in invites' ]_vars

\* The step is a step of a request of browser s: it answers s or moves the
\* request s has in flight.
StepOf(s) == (resp' # resp /\ resp'.s = s) \/ rq'[s] # rq[s]

\* The token is unknown, already used, or older than 7 days.
InvalidInvite(token) ==
    \/ ~\E i \in invites : i.token = token
    \/ \E i \in invites : /\ i.token = token
                          /\ \/ i.used_by_user_id # 0
                             \/ now > i.created_at + 7 * 24

\* C7: for an invite token that is unknown, already used or expired,
\* accept_invite renders the invalid-invite page and stores neither
\* invite_token nor user_id in the session; a register POST from a session
\* that holds such a token ends at once, creates no user and sets no session
\* user_id.
C7_InvalidInviteRejected ==
    [][ /\ \A s \in Visitors : StepOf(s) =>
              \A token \in Tokens : InvalidInvite(token) /\ accept_invite(s, token) =>
                  /\ resp'.s = s /\ resp'.page = "invite_invalid.html"
                  /\ sessions' = sessions
        /\ \A s \in Visitors :
              /\ StepOf(s)
              /\ sessions[s].invite_token # 0
              /\ InvalidInvite(sessions[s].invite_token)
              =>  \A form \in Forms : register_submit(s, form) =>
                      /\ users' = users /\ sessions' = sessions
                      /\ rq'[s] = Idle
                      /\ resp'.s = s
                      /\ resp'.page \in {"register.html", "redirect:index"} ]_vars

\* A register POST has just been refused because the invite its session
\* holds has expired.
C7_Witness ==
    /\ resp.page = "register.html"
    /\ resp.error = "That invite link is invalid or expired."
    /\ \E i \in invites : /\ i.token = sessions[resp.s].invite_token
                          /\ i.used_by_user_id = 0
                          /\ now > i.created_at + 7 * 24

\* C8: when a register POST from a session holding an invite token
\* succeeds, the invite's used_by_user_id is the id of the newly created user,
\* the session no longer holds invite_token and the session user_id is the new
\* user's id; a register POST that fails (missing field, password mismatch,
\* duplicate email or username) leaves the invites as they were.
C8_RegisterRedeemsInvite ==
    [][ \A s \in Visitors : StepOf(s) =>
          /\ register_insert(s) /\ rq[s].token # 0 /\ users' # users
              => \E u \in users' \ users :
                    /\ \E i \in invites' : i.token = rq[s].token
                    /\ \A i \in invites' :
                          i.token = rq[s].token => i.used_by_user_id = u.id
                    /\ sessions'[s] = [user_id |-> u.id, invite_token |-> 0]
          /\ register_insert(s) /\ users' = users
              => invites' = invites /\ resp'.page = "register.html"
          /\ register_check(s) => invites' = invites
          /\ invites' # invites => \A form \in Forms : ~register_submit(s, form) ]_vars

\* A visitor has just registered with an invite: the invite names them, and
\* their session is signed in and holds no token.
C8_Witness ==
    /\ resp.s \in Visitors /\ resp.page = "redirect:index"
    /\ sessions[resp.s].invite_token = 0
    /\ \E i \in invites : /\ i.used_by_user_id = sessions[resp.s].user_id
                          /\ i.used_by_user_id # 0

-----------------------------------------------------------------------------
(* Password reset tokens *)

\* C9: a password-reset token is single-use: over any interleaving of POST
\* /password-reset/<token> requests carrying the same token, at most one of
\* them changes the target user's password_hash, and after a successful reset
\* every later request with that token gets the invalid page.
C9_ResetSingleUse ==
    [][ /\ \A t \in ResetTokens : reset_writes'[t] <= 1
        /\ \A t \in ResetTokens : reset_writes[t] >= 1 =>
              \A s \in Visitors :
                  \/ password_reset(s, t, "GET", NoForm)
                  \/ \E form \in PasswordForms : password_reset(s, t, "POST", form)
                  => resp'.s = s /\ resp'.page = "password_reset_invalid.html" ]_vars

\* The token is unknown, marked used, or older than 2 hours.
InvalidReset(token) ==
    \/ ~\E r \in resets : r.token = token
    \/ \E r \in resets : /\ r.token = token
                         /\ \/ r.used = 1
                            \/ now > r.created_at + 2

\* C10: a GET or POST to /password-reset/<token> with a token that is
\* unknown, marked used or expired renders the invalid page, ends at once, and
\* leaves every user's password_hash and every password_resets row unchanged.
C10_InvalidResetRejected ==
    [][ \A token \in ResetTokens : InvalidReset(token) =>
          \A s \in Visitors :
              \/ password_reset(s, token, "GET", NoForm)
              \/ \E form \in PasswordForms : password_reset(s, token, "POST", form)
              => /\ resp'.s = s /\ resp'.page = "password_reset_invalid.html"
                 /\ rq'[s] = Idle
                 /\ users' = users /\ resets' = resets ]_vars

\* A request has just been shown the invalid page while an unused reset
\* token is past its two hours, and no password has been changed.
C10_Witness ==
    /\ resp.page = "password_reset_invalid.html"
    /\ \E r \in resets : r.used = 0 /\ now > r.created_at + 2
    /\ users = TwoUsers

-----------------------------------------------------------------------------
(* Login *)

\* C11: a login request signs the session in as user u exactly when the
\* identifier, trimmed and lower-cased, is u's username or u's email and the
\* password verifies against u's hash; so every user can sign in with their
\* own username or email whatever other users exist, and nobody is signed in
\* as u without u's password.
C11_LoginByUsernameOrEmail ==
    [][\A s \in Sessions, identifier \in Identifiers, password \in Passwords :
          login(s, identifier, password) /\ load_user(s) = 0 =>
              \A u \in users :
                  sessions'[s].user_id = u.id <=>
                      /\ strip_lower(identifier) \in {u.username, u.email}
                      /\ check_password_hash(u.password_hash, password)]_vars

-----------------------------------------------------------------------------
(* Uniqueness of usernames and emails *)

\* C12: no two users share a username and no two users share an email,
\* whatever register requests and account email updates have run and however
\* they interleaved.
C12_UniqueUsernameAndEmail ==
    \A u \in users, v \in users :
        u.id # v.id => u.username # v.username /\ u.email # v.email

-----------------------------------------------------------------------------
(* Isolation between users *)

\* The browser whose request takes the step (every step of the dashboard
\* answers its browser or moves its request on).
Actor(s) == rq'[s] # rq[s] \/ (rq' = rq /\ resp'.s = s)

\* The rows of T that user u owns, table by table
OwnedBy(T, u) == [k \in DOMAIN T |-> { r \in T[k] : r.user_id = u }]

\* The rows of T that other users own
OwnedByOthers(T, u) == [k \in DOMAIN T |-> { r \in T[k] : r.user_id # u }]

\* Every view model of user u is the one computed from u's rows alone.
ViewsIsolated ==
    \A u \in { x.id : x \in users } :
        LET reset_cycle_days ==
                IF HasSettings(settings, u)
                THEN normalize_cycle_days(<<SettingsRow(settings, u).reset_cycle_days>>)
                ELSE RESET_CYCLE_DAYS_DEFAULT
            cycle_start == cycle_start_str(reset_cycle_days, today_str)
        IN  /\ index_view(Tables, u, today_str, cycle_start, today_str - 6,
                          reset_cycle_days, today_str)
               = index_view(OwnedBy(Tables, u), u, today_str, cycle_start, today_str - 6,
                            reset_cycle_days, today_str)
            /\ get_overview_stats(Tables, u) = get_overview_stats(OwnedBy(Tables, u), u)
            /\ review_view(Tables, u, today_str - 6, today_str)
               = review_view(OwnedBy(Tables, u), u, today_str - 6, today_str)

\* C13: a request authenticated as user u leaves every row owned by another
\* user as it was (no such row is created, modified or deleted), the page it
\* renders is built from u's rows alone, and so is every view model.
C13_UserIsolation ==
    /\ [][\A s \in Sessions :
            Actor(s) /\ load_user(s) # 0 =>
                LET u == load_user(s)
                IN  /\ Tables' # Tables =>
                          OwnedByOthers(Tables', u) = OwnedByOthers(Tables, u)
                    /\ rq[s].op = "index" /\ rq[s].pc = "read" =>
                          /\ resp'.rows = plans_between(OwnedBy(Tables, u).plans,
                                                        rq[s].cycle_start, rq[s].today, u)
                          /\ resp'.view =
                                index_view(OwnedBy(Tables, u), u, rq[s].today,
                                           rq[s].cycle_start, rq[s].today - 6,
                                           rq[s].max_days, today_str)]_vars
    /\ []ViewsIsolated

\* bob loads the dashboard while ann owns a spending entry of today: it is
\* not among the entries of bob's page.
C13_Witness ==
    /\ resp.s = "s2" /\ resp.page = "index.html"
    /\ \E e \in spending_entries : e.user_id = 1 /\ e.spend_date = resp.today
    /\ resp.view.spending_entries = {}

-----------------------------------------------------------------------------
(* Spending amounts *)

\* x is a number strictly greater than 0
PositiveAmount(x) == x.kind = "num" /\ x.n > 0

\* C14: add_spending with an amount that is not a number or is <= 0 creates
\* no spending entry and redirects to the dashboard; so every stored
\* spending entry has an amount strictly greater than 0.
C14_SpendingAmountPositive ==
    /\ [][\A s \in PlanSessions, amount \in AmountTexts :
            (/\ add_spending(s, amount, "Food", -1)
             /\ load_user(s) # 0
             /\ \/ float(strip(amount)) = << >>
                \/ ~PositiveAmount(float(strip(amount))[1]))
            => /\ spending_entries' = spending_entries
               /\ resp'.page = "redirect:index"]_vars
    /\ [](\A e \in spending_entries : PositiveAmount(e.amount))

-----------------------------------------------------------------------------
(* Upserts *)

\* The step changes the named table or none of the upserted tables.
MayTouch(table) ==
    CASE settings' # settings -> table = "settings"
      [] spending_budgets' # spending_budgets -> table = "spending_budgets"
      [] daily_reflections' # daily_reflections -> table = "daily_reflections"
      [] OTHER -> spending_entries' = spending_entries

\* C15: an upsert of settings (key: user), of a budget (key: user and
\* category) or of a reflection (key: user and date) leaves exactly one row
\* for its key, holding the values just written, and leaves the rows of other
\* keys alone; writing the values a row already holds changes nothing.  So
\* after any sequence of upserts with one key there is one row with the most
\* recent values, and submitting twice is the same as submitting once.
C15_UpsertKeepsOneRow ==
    [][\A s \in PlanSessions :
          Actor(s) /\ load_user(s) # 0 /\ resp'.page = "redirect:index" =>
            LET u == load_user(s)
            IN  /\ \A text \in LimitTexts \cup {"abc"} :
                      MayTouch("settings") /\ update_spend_limit(s, text) =>
                        LET v == parse_float(text, Num(0))
                        IN  /\ Cardinality({ r \in settings' : r.user_id = u }) = 1
                            /\ \A r \in settings' :
                                  r.user_id = u => r.daily_spend_limit = v
                            /\ { r \in settings' : r.user_id # u }
                               = { r \in settings : r.user_id # u }
                            /\ (\E r \in settings :
                                   r.user_id = u /\ r.daily_spend_limit = v)
                               => settings' = settings
                /\ \A text \in CycleTexts :
                      MayTouch("settings") /\ update_reset_cycle(s, text) =>
                        LET v == normalize_cycle_days(int(text))
                        IN  /\ Cardinality({ r \in settings' : r.user_id = u }) = 1
                            /\ \A r \in settings' :
                                  r.user_id = u => r.reset_cycle_days = v
                            /\ { r \in settings' : r.user_id # u }
                               = { r \in settings : r.user_id # u }
                            /\ (\E r \in settings :
                                   r.user_id = u /\ r.reset_cycle_days = v)
                               => settings' = settings
                /\ \A form \in MoodForms :
                      MayTouch("daily_reflections") /\ save_reflection(s, -1, form) =>
                        LET key(r) == r.user_id = u /\ r.log_date = today_str
                            same(r) == /\ r.mood = strip(form.mood)
                                       /\ r.wins = strip(form.wins)
                                       /\ r.blockers = strip(form.blockers)
                                       /\ r.gratitude = strip(form.gratitude)
                        IN  /\ Cardinality({ r \in daily_reflections' : key(r) }) = 1
                            /\ \A r \in daily_reflections' : key(r) => same(r)
                            /\ { r \in daily_reflections' : ~key(r) }
                               = { r \in daily_reflections : ~key(r) }
                            /\ (\E r \in daily_reflections : key(r) /\ same(r))
                               => daily_reflections' = daily_reflections
                /\ \A daily_limit \in LimitTexts :
                      MayTouch("spending_budgets") /\ add_budget(s, "Food", daily_limit, "") =>
                        LET key(b) == b.user_id = u /\ b.category = "Food"
                            same(b) == /\ b.daily_limit = parse_float(daily_limit, Num(0))
                                       /\ b.weekly_limit = Num(0)
                        IN  /\ Cardinality({ b \in spending_budgets' : key(b) }) = 1
                            /\ \A b \in spending_budgets' : key(b) => same(b)
                            /\ { b \in spending_budgets' : ~key(b) }
                               = { b \in spending_budgets : ~key(b) }
                            /\ (\E b \in spending_budgets : key(b) /\ same(b))
                               => spending_budgets' = spending_budgets]_vars

\* On postgres the budget Food has been written twice by ann (two ids
\* handed out) and is one row, the one first stored, with daily_limit 20.
C15_Witness ==
    /\ backend = "postgres"
    /\ seq.spending_budgets = 2
    /\ spending_budgets = { [id |-> 1, user_id |-> 1, category |-> "Food",
                             daily_limit |-> Num(20), weekly_limit |-> Num(0)] }

-----------------------------------------------------------------------------
(* The reset cycle *)

\* The submitted value clamped into [7, 365]; 90 when it is no integer
ClampedCycle(text) ==
    IF int(text) = << >> THEN 90
    ELSE IF int(text)[1] < 7 THEN 7
    ELSE IF int(text)[1] > 365 THEN 365
    ELSE int(text)[1]

\* C16: every settings row has 7 <= reset_cycle_days <= 365: update_reset_cycle
\* stores the submitted integer clamped into [7, 365], and 90 when the value
\* is missing or no integer; a settings row that any other step creates
\* (first read, spend-limit write) has 90.
C16_ResetCycleInRange ==
    /\ [](\A r \in settings : 7 <= r.reset_cycle_days /\ r.reset_cycle_days <= 365)
    /\ [][/\ \A s \in PlanSessions, text \in CycleTexts :
                Actor(s) /\ load_user(s) # 0 /\ update_reset_cycle(s, text) =>
                  \E r \in settings' :
                     /\ r.user_id = load_user(s)
                     /\ r.reset_cycle_days = ClampedCycle(text)
          /\ \A r \in settings' \ settings :
                \/ HasSettings(settings, r.user_id)
                \/ r.reset_cycle_days = 90
                \/ \E s \in PlanSessions, text \in CycleTexts :
                      update_reset_cycle(s, text)]_vars

\* ann has submitted 3 and bob 1000: their rows hold 7 and 365.
C16_Witness ==
    /\ resp.page = "redirect:index"
    /\ \E r \in settings : r.user_id = 1 /\ r.reset_cycle_days = 7
    /\ \E r \in settings : r.user_id = 2 /\ r.reset_cycle_days = 365

-----------------------------------------------------------------------------
(* Counting habit logs *)

\* C17: every log_habit request of the owner for habit h completes without a
\* fault and leaves exactly one habit_logs row for (h, that day), with a count
\* one higher than before its write; so after k requests on one day, with no
\* reset_habit in between, the count is k, however the requests interleave.
C17_LogHabitCountsEveryRequest ==
    [][\A s \in Sessions :
          log_habit_write(s) =>
            LET habit_id == rq[s].rid
                log_date == rq[s].today
            IN  /\ resp'.page = "redirect:index"
                /\ Cardinality(log_rows(habit_logs', habit_id, log_date)) = 1
                /\ log_count(habit_logs', habit_id, log_date)
                   = log_count(habit_logs, habit_id, log_date) + 1]_vars

-----------------------------------------------------------------------------
(* Registration without an invitation *)

\* C18: a register POST from a session that holds no valid invite token
\* (here: no token at all) creates no user and signs nobody in.
C18_NoTokenNoRegistration ==
    [][\A s \in Sessions :
          register_insert(s) /\ rq[s].token = 0 =>
             /\ users' = users
             /\ sessions'[s].user_id = 0]_vars

-----------------------------------------------------------------------------
(* A username that is taken *)

\* C19: a register POST whose username is already taken creates no user, sets
\* no session user_id and returns the registration form with a message, not a
\* server fault, on the sqlite and on the postgres backend.
C19_TakenUsernameIsReported ==
    [][\A s \in Sessions :
          register_insert(s) /\ (\E u \in users : u.username = rq[s].username) =>
             /\ users' = users
             /\ sessions'[s].user_id = 0
             /\ resp'.page = "register.html"
             /\ resp'.error # ""]_vars

-----------------------------------------------------------------------------
(* Delivery of the reset mail *)

\* C20: a password_reset_request for a registered email whose mail is not
\* delivered (service not configured, mail refused, network error or timeout)
\* ends with the request page carrying an error message, not a server fault.
C20_MailFailureIsReported ==
    [][\A s \in Sessions, form_email \in {"ANN@X"}, mail \in MailOutcomes \ {"sent"} :
          /\ \E u \in users : u.email = strip_lower(form_email)
          /\ password_reset_request(s, form_email, mail)
          => /\ resp'.page = "password_reset_request.html"
             /\ resp'.error # ""]_vars

-----------------------------------------------------------------------------
(* One transaction per request *)

\* C21: a request does all its reads and writes in one transaction that is
\* committed once, at its end: a request that is still under way has made no
\* write that others see, and no other request's write falls between two
\* statements of the request.
C21_OneTransactionPerRequest ==
    [][\A s \in Sessions :
          /\ rq'[s].pc # "idle" /\ rq'[s] # rq[s] => Tables' = Tables
          /\ rq[s].pc # "idle" /\ rq'[s] = rq[s] => Tables' = Tables]_vars

-----------------------------------------------------------------------------
(* What a page load writes *)

\* Browser s takes a step of a GET / or GET /review request.
OverviewStep(s) ==
    /\ rq'[s] # rq[s]
    /\ rq[s].op \in {"index", "review"} \/ rq'[s].op \in {"index", "review"}

\* C22 as stated: producing the daily overview (GET /) or the weekly review
\* (GET /review) is read-only: the persisted state is the same after as before.
C22_PageLoadsReadOnly ==
    [][\A s \in Sessions :
          OverviewStep(s) =>
             /\ Tables' = Tables
             /\ <<users, invites, resets>>' = <<users, invites, resets>>]_vars

\* C22 amended: GET / and GET /review write nothing but the rollover (plans
\* of the requesting user go from pending to missed; no plan is added,
\* removed or otherwise changed) and, for GET / only, the requesting user's
\* settings row with the defaults when the user has none.
C22_PageLoadsWriteOnlyRolloverAndSettings ==
    [][\A s \in Sessions :
          OverviewStep(s) =>
             LET u == IF IsIdle(s) THEN rq'[s].uid ELSE rq[s].uid
             IN  /\ <<users, invites, resets, habits, habit_logs, other>>'
                    = <<users, invites, resets, habits, habit_logs, other>>
                 /\ PlanIds(plans') = PlanIds(plans)
                 /\ \A p \in plans :
                       \/ p \in plans'
                       \/ /\ p.user_id = u /\ p.status = "pending"
                          /\ [p EXCEPT !.status = "missed"] \in plans'
                 /\ settings \subseteq settings'
                 /\ \A r \in settings' \ settings :
                       /\ rq[s].op = "index"
                       /\ ~HasSettings(settings, u)
                       /\ r = [user_id |-> u, daily_spend_limit |-> Num(0),
                               reset_cycle_days |-> 90]]_vars

\* A dashboard has been rendered for a user whose plan the page load marked
\* missed and whose settings row it created.
C22_Witness ==
    /\ resp.page = "index.html"
    /\ \E p \in plans : p.user_id = sessions[resp.s].user_id /\ p.status = "missed"
    /\ \E r \in settings : r.user_id = sessions[resp.s].user_id

-----------------------------------------------------------------------------
(* Missed plans *)

\* C23: the transition from pending to missed is one-way: a plan whose status
\* is missed is not put back to pending by any later rollover or user action.
C23_MissedIsNeverPendingAgain ==
    [][\A p \in plans, q \in plans' :
          p.status = "missed" /\ q.id = p.id => q.status # "pending"]_vars

-----------------------------------------------------------------------------
(* Rollover twice *)

\* C24: rollover is idempotent: when update_missed_plans has run for a user,
\* running it again for the same user on the same date changes no plan.
C24_RolloverIdempotent ==
    [][\A s \in Sessions, u \in UserIds :
          RolloverStep(s, u) =>
             update_missed_plans(plans', u, today_str) = plans']_vars

\* A weekly review is under way: its rollover has run and the user has a
\* missed plan.
C24_Witness ==
    \E s \in Sessions :
       /\ rq[s].op = "review" /\ rq[s].pc = "read"
       /\ \E p \in plans : p.user_id = rq[s].uid /\ p.status = "missed"

-----------------------------------------------------------------------------
(* The first read of the settings *)

\* C25: get_settings(u) returns a settings row of u in every case, without a
\* fault, also when two requests of u read the settings for the first time at
\* once; a row it creates has daily_spend_limit 0 and reset_cycle_days 90, and
\* there is exactly one settings row of u afterwards.
C25_GetSettingsAlwaysReturns ==
    [][\A s \in Sessions :
          /\ rq[s].op = "index" /\ rq[s].pc \in {"settings", "settings_insert"}
          /\ rq'[s] # rq[s]
          => /\ rq'[s].pc \in {"settings_insert", "read"}
             /\ rq'[s].pc = "read" =>
                   /\ Cardinality({ r \in settings' : r.user_id = rq[s].uid }) = 1
                   /\ \A r \in settings' \ settings :
                         r = [user_id |-> rq[s].uid, daily_spend_limit |-> Num(0),
                              reset_cycle_days |-> 90]]_vars

-----------------------------------------------------------------------------
(* Streaks on the dashboard *)

\* The streak window of the user the dashboard was rendered for: the
\* normalized reset_cycle_days of the user's settings row
WindowOf(user_id) ==
    normalize_cycle_days(<<SettingsRow(settings, user_id).reset_cycle_days>>)

\* C26: on the dashboard every active habit has 0 <= streak <= N, N being the
\* user's normalized window length, and a habit that met its target on each
\* of the N days ending on the dashboard's today has the streak N, whatever
\* was logged before.
C26_StreakWithinWindow ==
    resp.page = "index.html" =>
        \A h \in resp.view.habits :
            LET N == WindowOf(h.user_id)
                streak == resp.view.habit_streaks[h.id]
            IN  /\ 0 <= streak /\ streak <= N
                /\ (/\ h.target_count > 0
                    /\ \A k \in 0..(N - 1) : MetOn(h, resp.today - k))
                   => streak = N

-----------------------------------------------------------------------------
(* Habits hit today *)

\* C29: on the dashboard an active habit is counted in habits_hit (today's
\* target met) if and only if its streak is at least 1, for every integer
\* target_count that add_habit stores.
C29_HitIffStreakStarted ==
    resp.page = "index.html" =>
        /\ \A h \in resp.view.habits :
              habit_is_hit(h, resp.view.habit_log_map)
              <=> resp.view.habit_streaks[h.id] >= 1
        /\ resp.view.habits_hit
           = Cardinality({ h \in resp.view.habits : resp.view.habit_streaks[h.id] >= 1 })

\* C27: a request of a browser whose session holds no user_id, or one that is
\* the id of no user, is answered with the redirect to the login page, and it
\* changes no table, no id counter and no session.
Unauthenticated(s) ==
    sessions[s].user_id = 0 \/ ~ \E u \in users : u.id = sessions[s].user_id

C27_GuestsAreRedirected ==
    [][\A s \in Sessions :
          Unauthenticated(s) /\ Actor(s) =>
              /\ resp'.s = s /\ resp'.page = "redirect:login"
              /\ rq' = rq /\ sessions' = sessions /\ seq' = seq
              /\ <<users, invites, resets, plans, settings, habits, habit_logs,
                    other>>' =
                 <<users, invites, resets, plans, settings, habits, habit_logs,
                   other>>]_vars

\* A browser without a user was sent to the login page while ann has a plan,
\* an invitation and a settings row.
C27_Witness ==
    /\ resp.page = "redirect:login" /\ resp.s # "none"
    /\ Unauthenticated(resp.s)
    /\ sessions["s1"].user_id = 1
    /\ \E p \in plans : p.user_id = 1
    /\ \E r \in settings : r.user_id = 1

\* C28: when an account request changes a user's password_hash, the user is
\* the one who sent the request, the current password of the form verifies
\* against the hash stored until then, and the new password, which equals
\* its confirmation, is the one hashed.
C28_PasswordChangeNeedsCurrentPassword ==
    [][\A s \in Sessions, u \in users, v \in users' :
          rq'[s] # rq[s] /\ v.id = u.id /\ v.password_hash # u.password_hash =>
              /\ u.id = sessions[s].user_id
              /\ rq[s].form # << >>
              /\ rq[s].form[1].current_password # ""
              /\ check_password_hash(u.password_hash, rq[s].form[1].current_password)
              /\ rq[s].form[1].new_password = rq[s].form[1].confirm_password
              /\ check_password_hash(v.password_hash, rq[s].form[1].new_password)]_vars

-----------------------------------------------------------------------------
(* What a reset request tells about an email *)

\* The message and error a request naming an email of no user is answered with
UnknownEmailAnswer == <<"If that email exists, a reset link has been sent.", "">>

\* C30: whatever the mail service does, a password_reset_request naming a
\* registered email is answered with the same message and error as one naming
\* an email that no user has.
C30_ResetAnswerHidesRegistration ==
    [][\A s \in Sessions, form_email \in {"ANN@X", "zed@x"}, mail \in MailOutcomes :
          password_reset_request(s, form_email, mail)
          => <<resp'.message, resp'.error>> = UnknownEmailAnswer]_vars

=============================================================================
